---------------------------- MODULE Spec2Model ----------------------------
(***************************************************************************)
(* A model of the BBone -> XFL converters:                                 *)
(*   src/bbone_to_xfl_symbols.py  (hierarchical exporter: mul, mat,        *)
(*       sanitize, dfs_draw_order, collect, compose_list, layer_frames)    *)
(*   src/bbone_to_xfl.py          (flat exporter: _norm_name,              *)
(*       compose_instance_matrix, _sprite_symbol)                          *)
(*                                                                         *)
(* Strings whose characters the code inspects (piece names) are sequences  *)
(* of one-character strings, so that sanitize, _norm_name and the PNG      *)
(* lookup are computed character by character as the code computes them.   *)
(* Numbers are integers: every value used is exactly representable as a    *)
(* Python float, so float arithmetic on them is exact.                     *)
(***************************************************************************)
EXTENDS Integers, Sequences, FiniteSets, TLC

VARIABLES
    pc,             \* position of the program being run
    mA, mB, mC,     \* matrix algebra: the three argument matrices
    mOut,           \* matrix algebra: the results computed from them
    labels,         \* _sprite_symbol: label table, in dict order, <<name, frame>>
    total,          \* _sprite_symbol: total = max(1, len(frames))
    starts,         \* _sprite_symbol: the list `starts`
    spans,          \* _sprite_symbol: DOMFrames emitted on the __labels__ layer
    frames,         \* main: anim["frames"], each [children |-> roots]
    shared,         \* main: anim["shared_animations"], id -> list of frame-like records
    plist,          \* main: the names keyed by the plist
    pngs,           \* main: stems of the *.png files of library/media
    name_to_image,  \* main: the names given an image symbol, in insertion order
    layer_frames,   \* main: layer key -> (frame index -> entry)
    layer_keys,     \* main: the keys of layer_frames in dict (insertion) order
    fi,             \* main: index of the next frame of `for fi, fr in enumerate(frames)`
    flat,           \* main: per processed frame, what compose_list returned for its roots
    dfs_order,      \* main: what dfs_draw_order(frames, shared) returned
    bottom_to_top,  \* main: draw order, bottom first
    top_first,      \* main: draw order, reversed
    piece_names,    \* _sprite_symbol: the atlas piece names, sorted
    aliases,        \* _sprite_symbol: alias map, normalized name -> atlas name
    only,           \* _sprite_symbol: None (<<>>) or the list of --only names
    include_unused, \* _sprite_symbol: --include-unused
    pinfos,         \* _sprite_symbol: plist, name -> {origin_x, origin_y, scale_x, scale_y}
    global_scale,   \* _sprite_symbol: --scale
    fmap,           \* _sprite_symbol: per frame, resolved name -> child node
    counts,         \* _sprite_symbol: resolved name -> number of occurrences
    order,          \* _sprite_symbol: the names of the layers to build
    layers,         \* _sprite_symbol: the piece DOMLayers built, in order
    report_missing, \* _sprite_symbol: --report-missing
    reported,       \* _sprite_symbol: the names printed by the [warn] line
    identity_sprite, \* convert_bbone_to_xfl: --identity-sprite
    identity_layers, \* convert_bbone_to_xfl: the DOMLayers of the identity sprite
    g_sx, g_sy,     \* main: the stage scale factors
    dom_layers,     \* main: the DOMLayers of the stage timeline, top first
    pending,        \* main, frames taken in any order: the frames not yet composed
    raw,            \* _norm_name: the raw name
    normed,         \* _norm_name: the results of normalizing it once, then again
    stack,          \* compose_list / walk call by call: the calls in progress
    call_out        \* compose_list call by call: `out`, the tuples returned so far for the frame

matVars == <<mA, mB, mC, mOut>>
labVars == <<labels, total, starts, spans>>
inVars  == <<frames, shared, plist, pngs>>
emitVars == <<g_sx, g_sy, dom_layers>>
symVars == <<inVars, name_to_image, layer_frames, layer_keys, fi, flat, dfs_order, bottom_to_top, top_first, emitVars, pending>>
sprInVars == <<piece_names, aliases, only, include_unused, pinfos, global_scale, report_missing,
               identity_sprite>>
sprVars == <<sprInVars, fmap, counts, order, layers, reported, identity_layers>>
nameVars == <<raw, normed>>
callVars == <<stack, call_out>>
vars == <<pc, matVars, labVars, symVars, sprVars, nameVars, callVars>>
notMatVars == <<labVars, symVars, sprVars, nameVars, callVars>>
notLabVars == <<matVars, symVars, sprVars, nameVars, callVars>>
notSymVars == <<matVars, labVars, sprVars, nameVars, callVars>>
notNameVars == <<matVars, labVars, symVars, sprVars, callVars>>
\* the flat exporter reads `frames` too
notSprVars == <<matVars, labVars, nameVars, plist, shared, pngs, name_to_image, layer_frames,
                layer_keys, fi, flat, dfs_order, bottom_to_top, top_first, emitVars, pending,
                callVars>>

(***************************************************************************)
(* Generic helpers                                                         *)
(***************************************************************************)
Max(x, y) == IF x >= y THEN x ELSE y

Range(s) == {s[i] : i \in DOMAIN s}

Reverse(s) == [i \in 1..Len(s) |-> s[Len(s) + 1 - i]]

SetMin(S) == CHOOSE x \in S : \A y \in S : x <= y

\* sorted(S) for a set of integers
RECURSIVE SortedInts(_)
SortedInts(S) ==
    IF S = {} THEN <<>>
    ELSE LET m == SetMin(S) IN <<m>> \o SortedInts(S \ {m})

\* Sequences over S of length 0..n
SeqsUpTo(S, n) == UNION {[1..k -> S] : k \in 0..n}

(***************************************************************************)
(* Transform algebra (bbone_to_xfl_symbols.py)                             *)
(* A matrix is the tuple (a, b, c, d, tx, ty).                             *)
(***************************************************************************)
\* Variant of mul: the operands exchanged (Local o Parent)
mul_swapped(a, b) ==
    << b[1]*a[1] + b[3]*a[2],  b[2]*a[1] + b[4]*a[2],
       b[1]*a[3] + b[3]*a[4],  b[2]*a[3] + b[4]*a[4],
       b[1]*a[5] + b[3]*a[6] + b[5],  b[2]*a[5] + b[4]*a[6] + b[6] >>

\* Variant of mul: a slip in the ty component
mul_ty_typo(a, b) ==
    << a[1]*b[1] + a[3]*b[2],  a[2]*b[1] + a[4]*b[2],
       a[1]*b[3] + a[3]*b[4],  a[2]*b[3] + a[4]*b[4],
       a[1]*b[5] + a[3]*b[6] + a[5],  a[1]*b[5] + a[4]*b[6] + a[6] >>

\* def mul(m1, m2): Parent o Local (lines 114-117)
mul(a, b) ==
    << a[1]*b[1] + a[3]*b[2],  a[2]*b[1] + a[4]*b[2],
       a[1]*b[3] + a[3]*b[4],  a[2]*b[3] + a[4]*b[4],
       a[1]*b[5] + a[3]*b[6] + a[5],  a[2]*b[5] + a[4]*b[6] + a[6] >>

\* def mat(a=1, b=0, c=0, d=1, tx=0, ty=0) (line 118)
mat(a, b, c, d, tx, ty) == <<a, b, c, d, tx, ty>>

\* mat() with every default
mat_default == mat(1, 0, 0, 1, 0, 0)

(***************************************************************************)
(* Bounds                                                                  *)
(***************************************************************************)
MaxCoef == 1        \* matrix entries of the algebra checks range over 0..MaxCoef
MaxTotal == 10      \* frame counts of the label checks range over 1..MaxTotal
MaxFrames == 3      \* timelines of freely mixed frames have 0..MaxFrames frames
MaxLoopFrames == 5  \* timelines repeating one frame have up to MaxLoopFrames frames

(***************************************************************************)
(* Matrix algebra as a program: compose a 3-level chain both ways          *)
(***************************************************************************)
Coefs == 0..MaxCoef

Mats == {mat(a, b, c, d, tx, ty) : a \in Coefs, b \in Coefs, c \in Coefs,
                                   d \in Coefs, tx \in Coefs, ty \in Coefs}

\* Matrices with negative, large and mixed entries for the inner levels of a chain
ChainMats ==
    { mat_default,
      mat(1, 0, 0, 1, 5, 10),
      mat(2, 0, 0, 3, 0, 0),
      mat(0, 1, -1, 0, 0, 0),
      mat(1, 1, 0, 1, -4, 7),
      mat(2, 3, 5, 7, 11, 13),
      mat(-1, 2, 3, -2, 1, -1),
      mat(0, 0, 0, 0, 1, 1) }

NoMat == <<>>

MatIdle == mA = NoMat /\ mB = NoMat /\ mC = NoMat /\ mOut = NoMat
LabIdle == labels = <<>> /\ total = 0 /\ starts = <<>> /\ spans = <<>>
SymIdle ==
    /\ frames = <<>> /\ shared = <<>> /\ plist = {} /\ pngs = {}
    /\ name_to_image = <<>> /\ layer_frames = <<>> /\ layer_keys = <<>>
    /\ fi = 0 /\ flat = <<>> /\ dfs_order = <<>> /\ bottom_to_top = <<>> /\ top_first = <<>>
    /\ g_sx = 1 /\ g_sy = 1 /\ dom_layers = <<>>
    /\ pending = {}
SprIdle ==
    /\ piece_names = <<>> /\ aliases = <<>> /\ only = <<>> /\ include_unused = FALSE
    /\ pinfos = <<>> /\ global_scale = 1 /\ report_missing = FALSE
    /\ identity_sprite = FALSE /\ identity_layers = <<>>
    /\ fmap = <<>> /\ counts = <<>> /\ order = <<>> /\ layers = <<>> /\ reported = <<>>
NameIdle == raw = <<>> /\ normed = <<>>
CallIdle == stack = <<>> /\ call_out = <<>>
NotMatIdle == LabIdle /\ SymIdle /\ SprIdle /\ NameIdle /\ CallIdle
NotLabIdle == MatIdle /\ SymIdle /\ SprIdle /\ NameIdle /\ CallIdle
NotSymIdle == MatIdle /\ LabIdle /\ SprIdle /\ NameIdle /\ CallIdle
NotNameIdle == MatIdle /\ LabIdle /\ SymIdle /\ SprIdle /\ CallIdle

\* Pairs: every P, L of the bounded set
MulInit ==
    /\ pc = "mul"
    /\ mA \in Mats /\ mB \in Mats /\ mC = NoMat /\ mOut = NoMat
    /\ NotMatIdle

\* World = Parent o Local, and the identity on either side
MulPair ==
    /\ pc = "mul"
    /\ mOut' = [pl |-> mul(mA, mB), idl |-> mul(mat_default, mA), idr |-> mul(mA, mat_default)]
    /\ pc' = "mul_done"
    /\ UNCHANGED <<mA, mB, mC, notMatVars>>

\* Chains: root from the bounded set, the two inner levels from ChainMats
ChainInit ==
    /\ pc = "chain"
    /\ mA \in Mats /\ mB \in ChainMats /\ mC \in ChainMats /\ mOut = NoMat
    /\ NotMatIdle

\* compose_list down a chain root -> mid -> leaf: world = mul(pw, local) at each level
ChainDirect ==
    /\ pc = "chain"
    /\ mOut' = [direct |-> mul(mul(mA, mB), mC),
                 flattened |-> mul(mul(mul(mat_default, mA), mB), mC)]
    /\ pc' = "chain_pairwise"
    /\ UNCHANGED <<mA, mB, mC, notMatVars>>

\* the same chain as two sequential pairwise compositions: root o (mid o leaf)
ChainPairwise ==
    /\ pc = "chain_pairwise"
    /\ mOut' = [direct |-> mOut.direct, flattened |-> mOut.flattened,
                 pairwise |-> mul(mA, mul(mB, mC))]
    /\ pc' = "chain_done"
    /\ UNCHANGED <<mA, mB, mC, notMatVars>>

MulNext == MulPair
ChainNext == ChainDirect \/ ChainPairwise

SpecMul == MulInit /\ [][MulNext]_vars
SpecChain == ChainInit /\ [][ChainNext]_vars

(***************************************************************************)
(* Claims on the transform algebra                                         *)
(***************************************************************************)
\* Named components of a matrix, as section 4.1 of the specification writes them
CompA(m) == m[1]
CompB(m) == m[2]
CompC(m) == m[3]
CompD(m) == m[4]
CompTx(m) == m[5]
CompTy(m) == m[6]

\* C7: mul(P, L) is the stated 2x3 affine composition World = Parent o Local, and
\* mat() is a left and a right unit of mul.
C7_MulIsAffineComposition ==
    pc = "mul_done" =>
        LET P == mA
            L == mB
            W == mOut.pl
        IN  /\ CompA(W)  = CompA(P)*CompA(L)  + CompC(P)*CompB(L)
            /\ CompB(W)  = CompB(P)*CompA(L)  + CompD(P)*CompB(L)
            /\ CompC(W)  = CompA(P)*CompC(L)  + CompC(P)*CompD(L)
            /\ CompD(W)  = CompB(P)*CompC(L)  + CompD(P)*CompD(L)
            /\ CompTx(W) = CompA(P)*CompTx(L) + CompC(P)*CompTy(L) + CompTx(P)
            /\ CompTy(W) = CompB(P)*CompTx(L) + CompD(P)*CompTy(L) + CompTy(P)
            /\ mOut.idl = P
            /\ mOut.idr = P

\* A composition in which every term of every component is non-zero
C7_Witness ==
    /\ pc = "mul_done"
    /\ mA = <<1, 1, 1, 1, 1, 1>>
    /\ mB = <<1, 1, 1, 1, 1, 1>>
    /\ mOut.pl = <<2, 2, 2, 2, 3, 3>>

\* C8: composition is associative: composing a 3-level chain directly, level by
\* level, equals composing it as root o (mid o leaf).
C8_CompositionAssociative ==
    pc = "chain_done" => /\ mOut.direct = mOut.pairwise
                         /\ mOut.flattened = mOut.pairwise

\* A chain of three non-commuting matrices, composed both ways
C8_Witness ==
    /\ pc = "chain_done"
    /\ mA = <<1, 1, 0, 1, 1, 0>>
    /\ mB = <<0, 1, -1, 0, 0, 0>>
    /\ mC = <<2, 3, 5, 7, 11, 13>>
    /\ mOut.pairwise = <<-3, -1, -7, -2, -12, -2>>

(***************************************************************************)
(* Label layer of _sprite_symbol (bbone_to_xfl.py, lines 153-167)          *)
(* The label table is a dict: a sequence of <<name, frame>> pairs with     *)
(* distinct names, in insertion order; frame numbers are 1-based.          *)
(***************************************************************************)
\* A dict key may be the empty string
LabelNames == {"walk", "idle", ""}

MaxLabels == 2      \* label tables hold up to MaxLabels labels

\* 1-based label frame numbers, from below the first frame to beyond the last
LabelFrames == 0..(MaxTotal + 2)

LabelTables ==
    {t \in SeqsUpTo(LabelNames \X LabelFrames, MaxLabels) :
        \A i, j \in DOMAIN t : i # j => t[i][1] # t[j][1]}

\* max(0, int(v) - 1)
label_start(v) == Max(0, v - 1)

\* starts = sorted({max(0, int(v) - 1) for v in labels.values()})
\* if not starts or starts[0] != 0: starts = [0] + starts
\* starts += [total]
label_starts(lab, tot) ==
    LET st == SortedInts({label_start(lab[k][2]) : k \in DOMAIN lab})
        st0 == IF st = <<>> \/ st[1] # 0 THEN <<0>> \o st ELSE st
    IN  st0 \o <<tot>>

\* next((lbl for lbl, v in labels.items() if max(0, int(v)-1) == s), None):
\* <<lbl>> for the first such label in dict order, <<>> for None
name_here(lab, s) ==
    LET hits == {k \in DOMAIN lab : label_start(lab[k][2]) = s}
    IN  IF hits = {} THEN <<>> ELSE <<lab[SetMin(hits)][1]>>

\* One DOMFrame of the labels layer: attrs of iteration i (0-based)
label_frame(lab, st, i) ==
    LET s == st[i + 1]
        e == st[i + 2]
        dur == Max(1, e - s)
        nm == name_here(lab, s)
    IN  IF nm # <<>> /\ nm[1] # ""
        THEN [index |-> s, duration |-> dur, name |-> nm[1]]
        ELSE [index |-> s, duration |-> dur]

LabelsInit ==
    /\ pc = "labels"
    /\ labels \in LabelTables
    /\ \E nframes \in 1..MaxTotal : total = Max(1, nframes)
    /\ starts = <<>> /\ spans = <<>>
    /\ NotLabIdle

\* if labels: build `starts`; an empty table emits no labels layer
LabelsLayer ==
    /\ pc = "labels"
    /\ IF labels # <<>>
       THEN starts' = label_starts(labels, total) /\ pc' = "span"
       ELSE starts' = starts /\ pc' = "labels_done"
    /\ UNCHANGED <<labels, total, spans, notLabVars>>

\* for i in range(len(starts) - 1): one DOMFrame per iteration
EmitSpan ==
    /\ pc = "span"
    /\ Len(spans) < Len(starts) - 1
    /\ spans' = Append(spans, label_frame(labels, starts, Len(spans)))
    /\ UNCHANGED <<pc, labels, total, starts, notLabVars>>

\* the loop is over
SpansDone ==
    /\ pc = "span"
    /\ Len(spans) = Len(starts) - 1
    /\ pc' = "labels_done"
    /\ UNCHANGED <<labVars, notLabVars>>

LabelsNext == LabelsLayer \/ EmitSpan \/ SpansDone

SpecLabels == LabelsInit /\ [][LabelsNext]_vars

(***************************************************************************)
(* Claims on the label layer                                               *)
(***************************************************************************)
RECURSIVE SumDurations(_)
SumDurations(sp) ==
    IF sp = <<>> THEN 0 ELSE sp[1].duration + SumDurations(Tail(sp))

\* The spans are contiguous and non-overlapping, start at 0, end at n, sum to n
PartitionOf(sp, n) ==
    /\ sp # <<>>
    /\ sp[1].index = 0
    /\ \A i \in 1..(Len(sp) - 1) : sp[i].index + sp[i].duration = sp[i + 1].index
    /\ sp[Len(sp)].index + sp[Len(sp)].duration = n
    /\ \A i \in DOMAIN sp : sp[i].duration >= 1
    /\ SumDurations(sp) = n

\* C1: for every frame count N >= 1 and every label table, the emitted label
\* spans partition [0, N): contiguous, non-overlapping, first at 0, last ending
\* at N, durations summing to N.
C1_LabelSpansPartition ==
    (pc = "labels_done" /\ labels # <<>>) => PartitionOf(spans, total)

\* The partition does hold when every label lies inside the timeline
C1_InRangePartition ==
    (pc = "labels_done" /\ labels # <<>>
        /\ \A k \in DOMAIN labels : labels[k][2] <= total)
    => PartitionOf(spans, total)

(***************************************************************************)
(* Strings as sequences of characters                                      *)
(***************************************************************************)
\* The characters used, in code-point order (Python compares str by code point)
Alphabet ==
    << " ", ".", "/",
       "A", "B", "C", "D", "E", "F", "G", "H", "I", "J", "K", "L", "M",
       "N", "O", "P", "Q", "R", "S", "T", "U", "V", "W", "X", "Y", "Z",
       "\\", "_",
       "a", "b", "c", "d", "e", "f", "g", "h", "i", "j", "k", "l", "m",
       "n", "o", "p", "q", "r", "s", "t", "u", "v", "w", "x", "y", "z" >>

Ord(ch) == CHOOSE i \in DOMAIN Alphabet : Alphabet[i] = ch

\* s < t for Python strings
RECURSIVE StrLess(_, _)
StrLess(s, t) ==
    IF t = <<>> THEN FALSE
    ELSE IF s = <<>> THEN TRUE
    ELSE IF s[1] # t[1] THEN Ord(s[1]) < Ord(t[1])
    ELSE StrLess(Tail(s), Tail(t))

\* sorted(S) for a set of strings
RECURSIVE SortedStrs(_)
SortedStrs(S) ==
    IF S = {} THEN <<>>
    ELSE LET m == CHOOSE x \in S : \A y \in S \ {x} : StrLess(x, y)
         IN  <<m>> \o SortedStrs(S \ {m})

\* s.replace(x, y) for single characters x, y
StrReplace(s, x, y) == [i \in 1..Len(s) |-> IF s[i] = x THEN y ELSE s[i]]

LowerChar(ch) ==
    LET i == Ord(ch)
    IN  IF Ord("A") <= i /\ i <= Ord("Z") THEN Alphabet[i - Ord("A") + Ord("a")] ELSE ch

\* s.lower()
StrLower(s) == [i \in 1..Len(s) |-> LowerChar(s[i])]

\* a in b  (substring test)
StrIn(a, b) == \E i \in 0..(Len(b) - Len(a)) : SubSeq(b, i + 1, i + Len(a)) = a

\* the keys of a dict after inserting the elements of s in order
RECURSIVE DictKeys(_)
DictKeys(s) ==
    IF s = <<>> THEN <<>>
    ELSE LET front == DictKeys(SubSeq(s, 1, Len(s) - 1))
             last == s[Len(s)]
         IN  IF last \in Range(front) THEN front ELSE Append(front, last)

(***************************************************************************)
(* bbone_to_xfl_symbols.py: utilities                                      *)
(***************************************************************************)
\* def sanitize(s): return s.replace(".", "_")
sanitize(s) == StrReplace(s, ".", "_")

\* build_png_index: the keys of idx for the stems of the PNG files
build_png_index(stems) ==
    UNION { { st, StrLower(st), StrReplace(st, ".", "_"), StrReplace(st, "_", "."),
              StrReplace(StrLower(st), ".", "_") } : st \in stems }

\* find_png_for_name(name, idx) is not None
find_png_for_name(name, idx) ==
    \/ name \in idx
    \/ StrReplace(name, ".", "_") \in idx
    \/ StrLower(name) \in idx
    \/ \E k \in idx : StrIn(StrLower(name), StrLower(k)) \/ StrIn(StrLower(k), StrLower(name))

(***************************************************************************)
(* Nodes, frames and the shared-animation table                            *)
(*   node  = [name, matrix, color, ref, children]                          *)
(*     matrix   is node["matrix"], a dict: a record of the keys it has     *)
(*     color    is node["color"], a dict likewise (<<>> is the empty dict) *)
(*     ref      is node["references_shared_animation"], "" when unset      *)
(*     children is node["children"]; a node without the key has <<>>       *)
(*   frame = [children |-> roots]; a frame-like record of the shared table *)
(*     may lack the key "children": NoChildrenKey                          *)
(***************************************************************************)
Bone(name, matrix, color, ref, children) ==
    [name |-> name, matrix |-> matrix, color |-> color, ref |-> ref, children |-> children]

Matrix(a, b, c, d, tx, ty) == [a |-> a, b |-> b, c |-> c, d |-> d, tx |-> tx, ty |-> ty]

Color(alpha) == [alphaMultiplier |-> alpha]

\* A value float() raises on (a non-numeric string, None) is modelled by this
\* reserved number; no well-formed field holds it
Malformed == -999

EmptyDict == <<>>

\* d.get(key, default)
Get(d, key, default) == IF key \in DOMAIN d THEN d[key] ELSE default

Frame(children) == [children |-> children]

NoChildrenKey == <<>>

\* Variant of compose_kids: always the first entry of the shared list, whatever the frame
compose_kids_first_entry(bone, table, f) ==
    IF bone.ref # "" /\ bone.ref \in DOMAIN table /\ table[bone.ref] # <<>>
    THEN LET sa == table[bone.ref]
             fr == sa[1]
         IN  IF "children" \in DOMAIN fr THEN fr.children ELSE bone.children
    ELSE bone.children

\* Variant of compose_kids: an unresolved reference leaves the node without children
compose_kids_none_on_fallback(bone, table, f) ==
    IF bone.ref = "" THEN bone.children
    ELSE IF bone.ref \in DOMAIN table /\ table[bone.ref] # <<>>
    THEN LET sa == table[bone.ref]
             fr == sa[(f % Len(sa)) + 1]
         IN  IF "children" \in DOMAIN fr THEN fr.children ELSE bone.children
    ELSE <<>>

\* kids = bone.get("children"); the shared entry of this frame replaces them
\* when the reference names a non-empty list (lines 425-430)
compose_kids(bone, table, f) ==
    IF bone.ref # "" /\ bone.ref \in DOMAIN table /\ table[bone.ref] # <<>>
    THEN LET sa == table[bone.ref]
             eff == f % Len(sa)
             fr == sa[eff + 1]
         IN  IF "children" \in DOMAIN fr THEN fr.children ELSE bone.children
    ELSE bone.children

\* Variant of walk_kids: a reference to an empty shared list leaves the node without children
walk_kids_none_on_empty(node, table, f) ==
    IF node.ref # "" /\ node.ref \in DOMAIN table /\ table[node.ref] = <<>> THEN <<>>
    ELSE IF node.ref # "" /\ node.ref \in DOMAIN table
    THEN LET sa == table[node.ref]
             fr == sa[(f % Len(sa)) + 1]
         IN  IF "children" \in DOMAIN fr THEN fr.children ELSE node.children
    ELSE node.children

\* Variant of walk_kids: a reference missing from the table leaves the node without children
walk_kids_none_on_missing(node, table, f) ==
    IF node.ref # "" /\ node.ref \notin DOMAIN table THEN <<>>
    ELSE IF node.ref # "" /\ table[node.ref] # <<>>
    THEN LET sa == table[node.ref]
             fr == sa[(f % Len(sa)) + 1]
         IN  IF "children" \in DOMAIN fr THEN fr.children ELSE node.children
    ELSE node.children

\* the same selection inside dfs_draw_order.walk (lines 146-151)
walk_kids(node, table, f) ==
    IF node.ref # "" /\ node.ref \in DOMAIN table /\ table[node.ref] # <<>>
    THEN LET sa == table[node.ref]
             fr == sa[(f % Len(sa)) + 1]
         IN  IF "children" \in DOMAIN fr THEN fr.children ELSE node.children
    ELSE node.children

\* One element of the list compose_list returns: (name, world, alpha).  Two more
\* fields record the call that produced it: the value of its local `kids` when
\* it went on to visit them, and its place in the frame as the path of child
\* positions from the frame's root list.
Visit(name, world, alpha, kids, path) ==
    [name |-> name, world |-> world, alpha |-> alpha, kids |-> kids, path |-> path]

\* Variant of local_matrix: a node that references a shared animation loses its own matrix
local_matrix_ref_identity(bone) ==
    LET M == bone.matrix
    IN  IF bone.ref # "" THEN mat_default
        ELSE << Get(M, "a", 1), Get(M, "b", 0), Get(M, "c", 0), Get(M, "d", 1),
                Get(M, "tx", 0), Get(M, "ty", 0) >>

\* local = (a, b, c, d, tx, ty) read from bone["matrix"]  (lines 418-421)
local_matrix(bone) ==
    LET M == bone.matrix
    IN  << Get(M, "a", 1), Get(M, "b", 0), Get(M, "c", 0), Get(M, "d", 1),
           Get(M, "tx", 0), Get(M, "ty", 0) >>

\* Variant of world_alpha: the alpha of the node alone, the parent alpha dropped
world_alpha_no_parent(bone, pa) == Get(bone.color, "alphaMultiplier", 1)

\* alpha = float((bone.get("color") or {}).get("alphaMultiplier", 1.0)) * pa  (line 423)
world_alpha(bone, pa) == Get(bone.color, "alphaMultiplier", 1) * pa

\* def compose_list(bone, pw, pa, fi)  (lines 416-433)
RECURSIVE compose_list(_, _, _, _, _, _)
RECURSIVE compose_children(_, _, _, _, _, _, _)
compose_list(bone, pw, pa, f, table, path) ==
    LET name == bone.name
        local == local_matrix(bone)
        world == mul(pw, local)
        alpha == world_alpha(bone, pa)
        kids == compose_kids(bone, table, f)
    IN  <<Visit(name, world, alpha, kids, path)>>
            \o compose_children(kids, 1, world, alpha, f, table, path)

\* for ch in kids: out += compose_list(ch, world, alpha, fi)
compose_children(kids, i, world, alpha, f, table, path) ==
    IF i > Len(kids) THEN <<>>
    ELSE compose_list(kids[i], world, alpha, f, table, Append(path, i))
            \o compose_children(kids, i + 1, world, alpha, f, table, path)

\* for bone in fr.get("children", []): compose_list(bone, mat(), 1.0, fi)
RECURSIVE compose_roots(_, _, _, _)
compose_roots(roots, i, f, table) ==
    IF i > Len(roots) THEN <<>>
    ELSE compose_list(roots[i], mat_default, 1, f, table, <<i>>)
            \o compose_roots(roots, i + 1, f, table)

\* def walk(node, fi) of dfs_draw_order: the names appended to `order`
RECURSIVE walk(_, _, _)
RECURSIVE walk_children(_, _, _, _)
walk(node, f, table) ==
    LET n == sanitize(node.name)
    IN  (IF n # <<>> THEN <<n>> ELSE <<>>)
            \o walk_children(walk_kids(node, table, f), 1, f, table)

walk_children(kids, i, f, table) ==
    IF i > Len(kids) THEN <<>>
    ELSE walk(kids[i], f, table) \o walk_children(kids, i + 1, f, table)

\* def dfs_draw_order(frames, shared)  (lines 140-155)
dfs_draw_order(frs, table) ==
    IF frs = <<>> THEN <<>>
    ELSE walk_children(frs[1].children, 1, 0, table)

\* def collect(children) of main: the names added to `names` (lines 387-393)
RECURSIVE collect(_)
collect(children) ==
    UNION { (IF children[i].name # <<>> THEN {children[i].name} ELSE {})
                \cup collect(children[i].children) : i \in DOMAIN children }

(***************************************************************************)
(* main() of bbone_to_xfl_symbols.py as a program                          *)
(***************************************************************************)
\* names: every name collect() meets in the frames, and every plist key
all_names(frs, pl) ==
    UNION {collect(frs[i].children) : i \in DOMAIN frs} \cup pl

\* name_to_image: for n in sorted(names): if find_png_for_name(n): ... (401-409)
build_name_to_image(frs, pl, stems) ==
    LET idx == build_png_index(stems)
        HasPng(n) == find_png_for_name(n, idx)
    IN  SelectSeq(SortedStrs(all_names(frs, pl)), HasPng)

\* Variant of put_slot: the write replaces the layer's dict, so the slots of
\* the other frames are lost
put_slot_replacing(slots, f, entry) == [x \in {f} |-> entry]

\* layer_frames[key][fi] = entry
put_slot(slots, f, entry) ==
    [x \in (DOMAIN slots) \cup {f} |-> IF x = f THEN entry ELSE slots[x]]

\* Variant of store_visits: a slot already written for the frame is kept (first wins)
RECURSIVE store_visits_first_wins(_, _, _)
store_visits_first_wins(lf, visits, f) ==
    IF visits = <<>> THEN lf
    ELSE LET v == visits[1]
             key == sanitize(v.name)
             entry == [name |-> key, m |-> v.world, alpha |-> v.alpha]
         IN  store_visits_first_wins(
                 IF key \in DOMAIN lf /\ f \notin DOMAIN lf[key]
                 THEN [lf EXCEPT ![key] = put_slot(@, f, entry)]
                 ELSE lf,
                 Tail(visits), f)

\* The body of the loop over compose_list's result (lines 438-441), applied to
\* the flattened visits of one frame in order
RECURSIVE store_visits(_, _, _)
store_visits(lf, visits, f) ==
    IF visits = <<>> THEN lf
    ELSE LET v == visits[1]
             key == sanitize(v.name)
             entry == [name |-> key, m |-> v.world, alpha |-> v.alpha]
         IN  store_visits(
                 IF key \in DOMAIN lf
                 THEN [lf EXCEPT ![key] = put_slot(@, f, entry)]
                 ELSE lf,
                 Tail(visits), f)

\* bottom_to_top (lines 444-446)
draw_order(dfs, keys) ==
    LET san == [i \in DOMAIN dfs |-> sanitize(dfs[i])]
        Layered(n) == n \in Range(keys)
        Unvisited(n) == n \notin Range(san)
    IN  SelectSeq(san, Layered) \o SelectSeq(keys, Unvisited)

\* ---- inputs ----
NmHead == <<"h", "e", "a", "d">>
NmEye  == <<"e", "y", "e">>
NmLid  == <<"l", "i", "d">>
NmJaw  == <<"j", "a", "w">>
NmDot == <<"a", ".", "b">>
NmUnd == <<"a", "_", "b">>
NmNone  == <<>>
NoRef   == ""

Leaf(name, matrix, alpha) == Bone(name, matrix, Color(alpha), NoRef, <<>>)

\* the scenario of the specification: head (identity) with child eye at (5, 10)
FrameScenario ==
    Frame(<< Bone(NmHead, Matrix(1, 0, 0, 1, 0, 0), Color(1), NoRef, << Leaf(NmEye, Matrix(1, 0, 0, 1, 5, 10), 1) >>) >>)

\* an unnamed group over a 3-level chain, a piece drawn twice, and two names
\* that sanitize to the same key
FrameDuplicates ==
    Frame(<< Bone(NmNone, Matrix(2, 0, 0, 2, 1, 0), Color(2), NoRef,
                  << Bone(NmEye, Matrix(0, 1, -1, 0, 3, 4), Color(3), NoRef,
                          << Leaf(NmLid, Matrix(1, 1, 0, 1, -4, 7), 1) >>),
                     Leaf(NmDot, Matrix(1, 0, 0, 1, 2, 2), 1) >>),
             Leaf(NmEye, Matrix(1, 0, 0, 1, 5, 10), 1),
             Leaf(NmUnd, Matrix(2, 3, 5, 7, 11, 13), 2) >>)

\* two nodes that reference shared animations, one with children of its own
FrameRefs ==
    Frame(<< Bone(NmHead, Matrix(1, 0, 0, 2, 1, 1), Color(2), "blink",
                  << Leaf(NmJaw, [ty |-> 3], 3) >>),
             Bone(NmLid, EmptyDict, EmptyDict, "wave", <<>>) >>)

\* a frame with nothing in it
FrameEmpty == Frame(<<>>)

FramePool == {FrameScenario, FrameDuplicates, FrameRefs, FrameEmpty}

\* a matrix component that is not a number, below the root
FrameMalformed ==
    Frame(<< Bone(NmHead, Matrix(1, 0, 0, 1, 0, 0), Color(1), NoRef,
                  << Leaf(NmEye, [a |-> Malformed, tx |-> 5], 1) >>) >>)

\* an alpha multiplier that is not a number
FrameMalformedAlpha == Frame(<< Leaf(NmEye, Matrix(1, 0, 0, 1, 5, 10), Malformed) >>)

\* two roots, the second with a matrix component that is not a number
FrameMalformedSecond ==
    Frame(<< Leaf(NmHead, Matrix(2, 0, 0, 2, 3, 4), 2), Leaf(NmEye, [a |-> Malformed], 1) >>)

\* a matrix with a key compose_list does not read, holding a value that is not
\* a number
FrameUnreadKey == Frame(<< Leaf(NmEye, [a |-> 1, zz |-> Malformed], 1) >>)

\* timelines with a value that is not a number where compose_list reads it
MalformedTimelines ==
    { <<FrameMalformed>>, <<FrameScenario, FrameMalformedAlpha>>,
      <<FrameMalformedSecond>>, <<FrameScenario, FrameMalformedSecond>> }

\* and where it does not
UnreadKeyTimelines == { <<FrameUnreadKey>>, <<FrameScenario, FrameUnreadKey>> }

\* timelines of freely mixed frames, timelines repeating one frame, and the
\* malformed ones
Timelines ==
    SeqsUpTo(FramePool, MaxFrames)
        \cup {[i \in 1..n |-> fr] : n \in 1..MaxLoopFrames, fr \in FramePool}
        \cup MalformedTimelines \cup UnreadKeyTimelines

ChildrenA == << Leaf(NmEye, Matrix(1, 0, 0, 1, 5, 10), 1) >>
ChildrenB == << Leaf(NmLid, Matrix(2, 0, 0, 2, 0, 0), 2), Leaf(NmEye, Matrix(1, 0, 0, 1, 0, 0), 1) >>
ChildrenNested == << Bone(NmJaw, Matrix(0, 1, -1, 0, 0, 0), Color(1), "wave", << Leaf(NmLid, Matrix(1, 0, 0, 1, 0, 0), 1) >>) >>

\* no shared animation at all: every reference is missing
SharedNone == <<>>

\* "blink" is the loop [A, B]; "wave" is missing
SharedBlink2 == [id \in {"blink"} |-> << Frame(ChildrenA), Frame(ChildrenB) >>]

\* "blink" is an empty list; "wave" has one frame
SharedBlinkEmpty ==
    [id \in {"blink", "wave"} |->
        IF id = "blink" THEN <<>> ELSE << Frame(ChildrenB) >>]

\* "blink" has three frames: one without the key "children", one whose child
\* references "wave"; "wave" is the loop [A, no children]
SharedNested ==
    [id \in {"blink", "wave"} |->
        IF id = "blink"
        THEN << Frame(ChildrenA), NoChildrenKey, Frame(ChildrenNested) >>
        ELSE << Frame(ChildrenA), Frame(<<>>) >>]

\* "blink" is an empty list and nothing else is defined: "wave" is missing
SharedBlinkOnlyEmpty == [id \in {"blink"} |-> <<>>]

SharedTables == {SharedNone, SharedBlink2, SharedBlinkEmpty, SharedBlinkOnlyEmpty, SharedNested}

\* the last one holds the empty string: a plist item named ""
PlistNames == { {}, {NmLid, NmJaw}, {NmHead, NmDot}, {NmNone, NmLid} }

PngStems == { {}, {NmHead, NmEye}, {NmHead, NmEye, NmLid, NmUnd} }

SymInit ==
    /\ pc = "main"
    /\ frames \in Timelines
    /\ shared \in SharedTables
    /\ plist \in PlistNames
    /\ pngs \in PngStems
    /\ name_to_image = <<>> /\ layer_frames = <<>> /\ layer_keys = <<>>
    /\ fi = 0 /\ flat = <<>> /\ dfs_order = <<>> /\ bottom_to_top = <<>> /\ top_first = <<>>
    /\ g_sx = 1 /\ g_sy = 1 /\ dom_layers = <<>>
    /\ pending = {}
    /\ NotSymIdle

\* if not frames: print("ERROR: no frames in JSON"); sys.exit(3)  (343-344)
CheckFrames ==
    /\ pc = "main"
    /\ pc' = IF frames = <<>> THEN "exit3" ELSE "collect"
    /\ UNCHANGED <<symVars, notSymVars>>

\* names, name_to_image and the empty layer_frames (385-413, 435)
Collect ==
    /\ pc = "collect"
    /\ name_to_image' = build_name_to_image(frames, plist, pngs)
    /\ layer_keys' = DictKeys([i \in DOMAIN name_to_image' |-> sanitize(name_to_image'[i])])
    /\ layer_frames' = [k \in Range(layer_keys') |-> <<>>]
    /\ pc' = "compose"
    /\ UNCHANGED <<inVars, fi, flat, dfs_order, bottom_to_top, top_first, emitVars, pending, notSymVars>>

\* the keys of bone["matrix"] that compose_list reads (419-420)
MatrixKeys == {"a", "b", "c", "d", "tx", "ty"}

\* float(x) raises ValueError or TypeError on a value that is not a number:
\* the node holds one as one of the six matrix components read or as its alpha
\* (419-423); any other key of the dicts is not looked at
float_raises(bone) ==
    \/ \E key \in DOMAIN bone.matrix : key \in MatrixKeys /\ bone.matrix[key] = Malformed
    \/ \E key \in DOMAIN bone.color : key = "alphaMultiplier" /\ bone.color[key] = Malformed

\* compose_list(bone, ..., f) raises: at the node or somewhere below it
RECURSIVE compose_raises(_, _, _)
compose_raises(bone, f, table) ==
    \/ float_raises(bone)
    \/ LET kids == compose_kids(bone, table, f)
       IN  \E i \in DOMAIN kids : compose_raises(kids[i], f, table)

\* The roots whose call of compose_list raises
raising_roots(roots, f, table) == {r \in DOMAIN roots : compose_raises(roots[r], f, table)}

\* The roots of the frame that the loop of line 437 has composed and stored
\* (438-441) when the call for the first of the raising roots raises
roots_before_raise(roots, f, table) ==
    SubSeq(roots, 1, SetMin(raising_roots(roots, f, table)) - 1)

\* one iteration of `for fi, fr in enumerate(frames)` (436-441); an exception
\* of compose_list leaves main() with the slots of the roots before it stored
ComposeFrame ==
    /\ pc = "compose"
    /\ fi < Len(frames)
    /\ IF raising_roots(frames[fi + 1].children, fi, shared) # {}
       THEN /\ pc' = "raised"
            /\ layer_frames' =
                   store_visits(layer_frames,
                       compose_roots(roots_before_raise(frames[fi + 1].children, fi, shared),
                                     1, fi, shared),
                       fi)
            /\ UNCHANGED <<flat, fi>>
       ELSE /\ LET out == compose_roots(frames[fi + 1].children, 1, fi, shared)
               IN  /\ flat' = Append(flat, out)
                   /\ layer_frames' = store_visits(layer_frames, out, fi)
            /\ fi' = fi + 1
            /\ pc' = pc
    /\ UNCHANGED <<inVars, name_to_image, layer_keys, dfs_order, bottom_to_top, top_first, emitVars, pending, notSymVars>>

\* after the loop: viewer order -> XFL top-first (443-447)
DrawOrder ==
    /\ pc = "compose"
    /\ fi = Len(frames)
    /\ dfs_order' = dfs_draw_order(frames, shared)
    /\ bottom_to_top' = draw_order(dfs_order', layer_keys)
    /\ top_first' = Reverse(bottom_to_top')
    /\ pc' = "emit"
    /\ UNCHANGED <<inVars, name_to_image, layer_frames, layer_keys, fi, flat, emitVars, pending, notSymVars>>

\* Stage size (lines 346-357): the target size from --size, --width and/or
\* --height, or from the two prompts; args is the record of what was given
stage_size(args, base_w, base_h) ==
    IF "size" \in DOMAIN args THEN args.size
    ELSE IF "width" \in DOMAIN args /\ "height" \in DOMAIN args THEN <<args.width, args.height>>
    ELSE IF "width" \in DOMAIN args THEN <<args.width, (args.width * base_h) \div base_w>>
    ELSE IF "height" \in DOMAIN args THEN <<(args.height * base_w) \div base_h, args.height>>
    ELSE args.prompt

\* a *= g_sx; b *= g_sx; c *= g_sy; d *= g_sy; tx *= g_sx; ty *= g_sy  (line 466)
stage_scale(m, sx, sy) ==
    [a |-> m[1] * sx, b |-> m[2] * sx, c |-> m[3] * sy, d |-> m[4] * sy,
     tx |-> m[5] * sx, ty |-> m[6] * sy]

\* if entry["alpha"] != 1.0: a Color element with the alpha multiplier (470-475)
stage_color(alpha) ==
    IF alpha # 1
    THEN << [redMultiplier |-> 1, greenMultiplier |-> 1, blueMultiplier |-> 1,
             alphaMultiplier |-> alpha] >>
    ELSE <<>>

\* Variant of stage_frame: a frame without the piece draws it with zero alpha
stage_frame_zero_alpha(slots, f, sx, sy) ==
    IF f \notin DOMAIN slots
    THEN [index |-> f, duration |-> 1,
          elements |-> << [libraryItemName |-> "", matrix |-> stage_scale(<<1, 0, 0, 1, 0, 0>>, sx, sy),
                           color |-> stage_color(0)] >>]
    ELSE [index |-> f, duration |-> 1,
          elements |-> << [libraryItemName |-> slots[f].name,
                           matrix |-> stage_scale(slots[f].m, sx, sy),
                           color |-> stage_color(slots[f].alpha)] >>]

\* One DOMFrame of a stage layer (lines 458-475)
stage_frame(slots, f, sx, sy) ==
    IF f \notin DOMAIN slots
    THEN [index |-> f, duration |-> 1, elements |-> <<>>]
    ELSE [index |-> f, duration |-> 1,
          elements |-> << [libraryItemName |-> slots[f].name,
                           matrix |-> stage_scale(slots[f].m, sx, sy),
                           color |-> stage_color(slots[f].alpha)] >>]

\* One DOMLayer of the stage timeline (lines 454-475)
stage_layer(lname, lf, n, sx, sy) ==
    [name |-> lname, frames |-> [i \in 1..n |-> stage_frame(lf[lname], i - 1, sx, sy)]]

\* base sizes and size arguments; every quotient below is a whole number
BaseSizes == { <<2, 2>>, <<2, 4>> }

SizeArgs ==
    { [size |-> <<4, 4>>], [size |-> <<2, 4>>], [width |-> 4], [height |-> 8],
      [width |-> 4, height |-> 4], [prompt |-> <<2, 4>>] }

\* g_sx = tgt_w / base_w; g_sy = tgt_h / base_h; for lname in top_first: ... (452-475)
EmitLayers ==
    /\ pc = "emit"
    /\ \E base \in BaseSizes, args \in SizeArgs :
          LET tgt == stage_size(args, base[1], base[2])
          IN  /\ g_sx' = tgt[1] \div base[1]
              /\ g_sy' = tgt[2] \div base[2]
    /\ dom_layers' = [i \in DOMAIN top_first |->
                         stage_layer(top_first[i], layer_frames, Len(frames), g_sx', g_sy')]
    /\ pc' = "done"
    /\ UNCHANGED <<inVars, name_to_image, layer_frames, layer_keys, fi, flat,
                   dfs_order, bottom_to_top, top_first, pending, notSymVars>>

SymNext == CheckFrames \/ Collect \/ ComposeFrame \/ DrawOrder \/ EmitLayers

Spec == SymInit /\ [][SymNext]_vars

(***************************************************************************)
(* main() with the frames of the loop at lines 436-441 taken in any order: *)
(* the same loop body, applied to whichever frame is still pending         *)
(***************************************************************************)
\* every PNG there is, so that the pieces have layers
AllPngStems == UNION PngStems

AnyOrderInit ==
    /\ pc = "main"
    /\ frames \in SeqsUpTo(FramePool, MaxFrames) \cup MalformedTimelines \cup UnreadKeyTimelines
    /\ shared \in SharedTables
    /\ plist \in PlistNames
    /\ pngs = AllPngStems
    /\ name_to_image = <<>> /\ layer_frames = <<>> /\ layer_keys = <<>>
    /\ fi = 0 /\ flat = <<>> /\ dfs_order = <<>> /\ bottom_to_top = <<>> /\ top_first = <<>>
    /\ g_sx = 1 /\ g_sy = 1 /\ dom_layers = <<>>
    /\ pending = 0..(Len(frames) - 1)
    /\ NotSymIdle

\* the loop body (lines 437-441) for a pending frame f; fi counts the frames done
ComposeAnyFrame ==
    /\ pc = "compose"
    /\ \E f \in pending :
          IF raising_roots(frames[f + 1].children, f, shared) # {}
          THEN /\ pc' = "raised"
               /\ layer_frames' =
                      store_visits(layer_frames,
                          compose_roots(roots_before_raise(frames[f + 1].children, f, shared),
                                        1, f, shared),
                          f)
               /\ UNCHANGED <<fi, pending>>
          ELSE /\ layer_frames' =
                      store_visits(layer_frames, compose_roots(frames[f + 1].children, 1, f, shared), f)
               /\ pending' = pending \ {f}
               /\ fi' = fi + 1
               /\ pc' = pc
    /\ UNCHANGED <<inVars, name_to_image, layer_keys, flat, dfs_order, bottom_to_top, top_first,
                   emitVars, notSymVars>>

AnyOrderNext == CheckFrames \/ Collect \/ ComposeAnyFrame \/ DrawOrder \/ EmitLayers

SpecAnyOrder == AnyOrderInit /\ [][AnyOrderNext]_vars

(***************************************************************************)
(* _sprite_symbol of bbone_to_xfl.py: the flat exporter's piece layers     *)
(* The label layer of the same function depends on (labels, total) only    *)
(* and is the program SpecLabels above.                                    *)
(***************************************************************************)
\* def _float(v, d=0.0): try: return float(v); except Exception: return float(d)
_float(v, d) == IF v = Malformed THEN d ELSE v

\* n.strip(), for the blank
RECURSIVE LStrip(_)
LStrip(s) == IF s # <<>> /\ s[1] = " " THEN LStrip(Tail(s)) ELSE s

RECURSIVE RStrip(_)
RStrip(s) == IF s # <<>> /\ s[Len(s)] = " " THEN RStrip(SubSeq(s, 1, Len(s) - 1)) ELSE s

Strip(s) == RStrip(LStrip(s))

\* if sep in n: n = n.split(sep)[-1]
AfterLast(s, sep) ==
    LET hits == {i \in DOMAIN s : s[i] = sep}
    IN  IF hits = {} THEN s
        ELSE SubSeq(s, (CHOOSE i \in hits : \A j \in hits : j <= i) + 1, Len(s))

\* s.endswith(suffix)
EndsWith(s, suffix) ==
    Len(s) >= Len(suffix) /\ SubSeq(s, Len(s) - Len(suffix) + 1, Len(s)) = suffix

DotPng == <<".", "p", "n", "g">>

\* def _norm_name(n); None and "" are both <<>>
_norm_name(n) ==
    IF n = <<>> THEN <<>>
    ELSE LET n1 == Strip(n)
             n2 == AfterLast(n1, "/")
             n3 == AfterLast(n2, "\\")
         IN  IF EndsWith(StrLower(n3), DotPng) THEN SubSeq(n3, 1, Len(n3) - 4) ELSE n3

\* d[k] = v
DictSet(d, k, v) == [x \in (DOMAIN d) \cup {k} |-> IF x = k THEN v ELSE d[x]]

\* Variant of compose_instance_matrix: the origin added as it is, not carried
\* through the frame matrix
compose_instance_matrix_raw_origin(frame_m, plist_rec) ==
    LET a  == _float(Get(frame_m, "a", 1), 0)
        b  == _float(Get(frame_m, "b", 0), 0)
        c  == _float(Get(frame_m, "c", 0), 0)
        d  == _float(Get(frame_m, "d", 1), 0)
        tx == _float(Get(frame_m, "tx", 0), 0)
        ty == _float(Get(frame_m, "ty", 0), 0)
        ox == _float(Get(plist_rec, "origin_x", 0), 0)
        oy == _float(Get(plist_rec, "origin_y", 0), 0)
        sx == _float(Get(plist_rec, "scale_x", 1), 0)
        sy == _float(Get(plist_rec, "scale_y", 1), 0)
    IN  [a |-> a * sx, b |-> b * sx, c |-> c * sy, d |-> d * sy, tx |-> ox + tx, ty |-> oy + ty]

\* def compose_instance_matrix(frame_m, plist_rec)
compose_instance_matrix(frame_m, plist_rec) ==
    LET a  == _float(Get(frame_m, "a", 1), 0)
        b  == _float(Get(frame_m, "b", 0), 0)
        c  == _float(Get(frame_m, "c", 0), 0)
        d  == _float(Get(frame_m, "d", 1), 0)
        tx == _float(Get(frame_m, "tx", 0), 0)
        ty == _float(Get(frame_m, "ty", 0), 0)
        ox == _float(Get(plist_rec, "origin_x", 0), 0)
        oy == _float(Get(plist_rec, "origin_y", 0), 0)
        sx == _float(Get(plist_rec, "scale_x", 1), 0)
        sy == _float(Get(plist_rec, "scale_y", 1), 0)
        tx1 == a * ox + c * oy + tx
        ty1 == b * ox + d * oy + ty
    IN  [a |-> a * sx, b |-> b * sx, c |-> c * sy, d |-> d * sy, tx |-> tx1, ty |-> ty1]

\* if s != 1.0: composed = {k: composed[k] * s}
apply_global_scale(composed, s) ==
    IF s # 1
    THEN [a |-> composed.a * s, b |-> composed.b * s, c |-> composed.c * s,
          d |-> composed.d * s, tx |-> composed.tx * s, ty |-> composed.ty * s]
    ELSE composed

\* def _color(parent, c): no Color element for an empty dict
color_element(c) ==
    IF c = EmptyDict THEN <<>>
    ELSE << [redMultiplier   |-> Get(c, "redMultiplier", 1),
             greenMultiplier |-> Get(c, "greenMultiplier", 1),
             blueMultiplier  |-> Get(c, "blueMultiplier", 1),
             alphaMultiplier |-> Get(c, "alphaMultiplier", 1)] >>

\* total = max(1, len(frames))
sprite_total(frs) == Max(1, Len(frs))

\* Variant of map_children: a name already in `per` is kept (first wins)
RECURSIVE map_children_first_wins(_, _, _)
map_children_first_wins(children, acc, al) ==
    IF children = <<>> THEN acc
    ELSE LET ch == children[1]
             n0 == _norm_name(ch.name)
             n == Get(al, n0, n0)
         IN  map_children_first_wins(Tail(children),
                 IF n0 = <<>> THEN acc
                 ELSE [per |-> IF n \in DOMAIN acc.per THEN acc.per ELSE DictSet(acc.per, n, ch),
                       counts |-> DictSet(acc.counts, n, Get(acc.counts, n, 0) + 1)],
                 al)

\* The body of `for ch in (f.get("children") or [])` (lines 134-141) over the
\* children in order; acc = [per, counts]
RECURSIVE map_children(_, _, _)
map_children(children, acc, al) ==
    IF children = <<>> THEN acc
    ELSE LET ch == children[1]
             n0 == _norm_name(ch.name)
             n == Get(al, n0, n0)
         IN  map_children(Tail(children),
                 IF n0 = <<>> THEN acc
                 ELSE [per |-> DictSet(acc.per, n, ch),
                       counts |-> DictSet(acc.counts, n, Get(acc.counts, n, 0) + 1)],
                 al)

\* used = set(k for k, v in counts.items() if v > 0)
used_names(cnt) == {k \in DOMAIN cnt : cnt[k] > 0}

\* missing = sorted(n for n in used if n not in atlas_set)  (line 148)
missing_names(cnt, pieces) == SortedStrs(used_names(cnt) \ Range(pieces))

\* the [warn] line prints missing[:20]
ReportLimit == 20

\* if missing: print(..., ", ".join(missing[:20]) + ...)  (lines 149-151)
warn_names(missing) ==
    IF Len(missing) > ReportLimit THEN SubSeq(missing, 1, ReportLimit) ELSE missing

\* Variant of layer_order: include_unused ignored
layer_order_used_only(pieces, onl, incl, cnt) ==
    LET only_norm == {_norm_name(onl[i]) : i \in DOMAIN onl}
        InOnly(n) == n \in only_norm
        IsUsed(n) == n \in used_names(cnt)
    IN  IF onl # <<>> THEN SelectSeq(pieces, InOnly)
        ELSE SelectSeq(pieces, IsUsed)

\* Decide which layers to build (lines 169-174)
layer_order(pieces, onl, incl, cnt) ==
    LET only_norm == {_norm_name(onl[i]) : i \in DOMAIN onl}
        InOnly(n) == n \in only_norm
        IsUsed(n) == n \in used_names(cnt)
    IN  IF onl # <<>> THEN SelectSeq(pieces, InOnly)
        ELSE IF incl THEN pieces
        ELSE SelectSeq(pieces, IsUsed)

\* One DOMFrame of a piece layer (lines 191-214)
dom_frame(name, idx, fm, pl, s) ==
    LET node == Get(fm[idx + 1], name, <<>>)
    IN  IF node = <<>>
        THEN [index |-> idx, duration |-> 1, elements |-> <<>>]
        ELSE [index |-> idx, duration |-> 1,
              elements |-> << [libraryItemName |-> name,
                               matrix |-> apply_global_scale(
                                   compose_instance_matrix(Get(node, "matrix", EmptyDict),
                                                           Get(pl, name, EmptyDict)), s),
                               color |-> color_element(Get(node, "color", EmptyDict))] >>]

\* One DOMLayer (lines 184-214)
dom_layer(name, tot, fm, pl, s) ==
    [name |-> name, frames |-> [i \in 1..tot |-> dom_frame(name, i - 1, fm, pl, s)]]

\* ---- inputs ----
MaxSpriteFrames == 2

NmToe == <<"t", "o", "e">>
NmGaze == <<"g", "a", "z", "e">>
RawEyePath == <<"a", "/", "e", "y", "e", ".", "P", "N", "G">>
RawLidPad == <<" ", "l", "i", "d", " ">>
RawJawBack == <<"a", "\\", "j", "a", "w">>

Piece(name, matrix, color) == Bone(name, matrix, color, NoRef, <<>>)

\* the same piece three times under three spellings, the middle one through an alias
SprFrameRepeats ==
    Frame(<< Piece(NmEye, Matrix(1, 0, 0, 1, 5, 10), Color(1)),
             Piece(NmLid, Matrix(1, 0, 0, 1, 1, 1), EmptyDict),
             Piece(NmGaze, Matrix(2, 0, 0, 2, 0, 0), Color(2)),
             Piece(RawEyePath, Matrix(0, 1, -1, 0, 3, 4), Color(3)) >>)

\* padded and prefixed names, an unnamed child, a name outside the atlas
SprFrameRaw ==
    Frame(<< Piece(RawLidPad, [tx |-> 7], Color(2)),
             Piece(NmNone, Matrix(1, 0, 0, 1, 9, 9), Color(1)),
             Piece(RawJawBack, Matrix(1, 1, 0, 1, -4, 7), [redMultiplier |-> 2]),
             Piece(NmToe, [a |-> Malformed, ty |-> 2], EmptyDict),
             Piece(NmLid, Matrix(2, 3, 5, 7, 11, 13), Color(3)) >>)

SprFrameOne == Frame(<< Piece(NmEye, Matrix(1, 0, 0, 1, 5, 10), EmptyDict) >>)

SprFramePool == {SprFrameRepeats, SprFrameRaw, SprFrameOne, FrameEmpty}

\* one piece of the atlas among twenty-one names outside it: uA .. uU
SprFrameCrowd ==
    Frame([i \in 1..(ReportLimit + 2) |->
              IF i = 1 THEN Piece(NmEye, EmptyDict, EmptyDict)
              ELSE Piece(<<"u", Alphabet[Ord("A") + i - 2]>>, EmptyDict, EmptyDict)])

\* the timelines with at least one frame
SprTimelines == (SeqsUpTo(SprFramePool, MaxSpriteFrames) \ {<<>>}) \cup {<<SprFrameCrowd>>}

\* piece_names = sorted({r["name"].strip() for r in atlas})
PieceLists == { SortedStrs({NmEye, NmLid}), SortedStrs({NmEye, NmJaw, NmLid, NmHead}) }

AliasMaps == { <<>>, [n \in {NmGaze} |-> NmEye], [n \in {NmGaze, NmToe} |-> IF n = NmGaze THEN NmEye ELSE NmJaw] }

OnlyLists == { <<>>, <<RawLidPad, NmToe>> }

PlistRecs ==
    { <<>>,
      [n \in {NmEye, NmLid} |->
          IF n = NmEye THEN [origin_x |-> 2, origin_y |-> 3, scale_x |-> 2, scale_y |-> 3]
          ELSE [origin_x |-> 1]] }

GlobalScales == {1, 2}

SprInit ==
    /\ pc = "convert"
    /\ frames \in SprTimelines \cup {<<>>}
    /\ identity_sprite \in BOOLEAN
    /\ identity_layers = <<>>
    /\ piece_names \in PieceLists
    /\ aliases \in AliasMaps
    /\ only \in OnlyLists
    /\ include_unused \in BOOLEAN
    /\ pinfos \in PlistRecs
    /\ global_scale \in GlobalScales
    /\ report_missing \in BOOLEAN
    /\ fmap = <<>> /\ counts = <<>> /\ order = <<>> /\ layers = <<>> /\ reported = <<>>
    /\ shared = <<>> /\ plist = {} /\ pngs = {}
    /\ name_to_image = <<>> /\ layer_frames = <<>> /\ layer_keys = <<>>
    /\ fi = 0 /\ flat = <<>> /\ dfs_order = <<>> /\ bottom_to_top = <<>> /\ top_first = <<>>
    /\ g_sx = 1 /\ g_sy = 1 /\ dom_layers = <<>>
    /\ pending = {}
    /\ MatIdle /\ LabIdle /\ NameIdle /\ CallIdle

\* def _sprite_identity(symname, piece_names): one layer per piece, each with
\* one DOMFrame holding an instance without a matrix
sprite_identity(pieces) ==
    [li \in DOMAIN pieces |->
        [name |-> pieces[li],
         frames |-> << [index |-> 0, duration |-> 1,
                        elements |-> << [libraryItemName |-> pieces[li]] >>] >>]]

\* convert_bbone_to_xfl, main sprite timeline (lines 396-408): the identity
\* sprite on request or without frames, else _sprite_symbol; either way the
\* function goes on to write the document and returns `out`
Convert ==
    /\ pc = "convert"
    /\ IF identity_sprite \/ Len(frames) = 0
       THEN identity_layers' = sprite_identity(piece_names) /\ pc' = "identity_done"
       ELSE identity_layers' = identity_layers /\ pc' = "sprite"
    /\ UNCHANGED <<frames, sprInVars, fmap, counts, order, layers, reported, notSprVars>>

\* one iteration of `for f in frames` (lines 132-142)
MapFrame ==
    /\ pc = "sprite"
    /\ Len(fmap) < Len(frames)
    /\ LET acc == map_children(frames[Len(fmap) + 1].children,
                               [per |-> <<>>, counts |-> counts], aliases)
       IN  /\ fmap' = Append(fmap, acc.per)
           /\ counts' = acc.counts
    /\ UNCHANGED <<pc, frames, sprInVars, order, layers, reported, identity_layers, notSprVars>>

\* after the loop: the layers to build (lines 144-174)
DecideLayers ==
    /\ pc = "sprite"
    /\ Len(fmap) = Len(frames)
    /\ reported' = IF report_missing THEN warn_names(missing_names(counts, piece_names)) ELSE <<>>
    /\ order' = layer_order(piece_names, only, include_unused, counts)
    /\ pc' = "layers"
    /\ UNCHANGED <<frames, sprInVars, fmap, counts, layers, identity_layers, notSprVars>>

\* one iteration of `for li, name in enumerate(order)` (lines 184-214)
BuildLayer ==
    /\ pc = "layers"
    /\ Len(layers) < Len(order)
    /\ layers' = Append(layers, dom_layer(order[Len(layers) + 1], sprite_total(frames),
                                          fmap, pinfos, global_scale))
    /\ UNCHANGED <<pc, frames, sprInVars, fmap, counts, order, reported, identity_layers, notSprVars>>

\* return sym
SpriteDone ==
    /\ pc = "layers"
    /\ Len(layers) = Len(order)
    /\ pc' = "sprite_done"
    /\ UNCHANGED <<frames, sprVars, notSprVars>>

SprNext == Convert \/ MapFrame \/ DecideLayers \/ BuildLayer \/ SpriteDone

SpecSprite == SprInit /\ [][SprNext]_vars

\* Both exporters: the symbols exporter's main() and the flat exporter's
\* _sprite_symbol, each from its own inputs
TracksInit == SymInit \/ SprInit

TracksNext == SymNext \/ SprNext

SpecTracks == TracksInit /\ [][TracksNext]_vars

(***************************************************************************)
(* _norm_name as a program: a raw name normalized, and the result          *)
(* normalized again                                                        *)
(***************************************************************************)
MaxNameParts == 4

\* the pieces raw names are put together from
NameParts ==
    { <<" ">>, <<"/">>, <<"\\">>, <<"a">>, <<"b">>, DotPng, <<".", "P", "N", "G">> }

RECURSIVE Concat(_)
Concat(parts) == IF parts = <<>> THEN <<>> ELSE parts[1] \o Concat(Tail(parts))

RawNames == {Concat(parts) : parts \in SeqsUpTo(NameParts, MaxNameParts)}

NormInit ==
    /\ pc = "norm"
    /\ raw \in RawNames
    /\ normed = <<>>
    /\ NotNameIdle

\* n = _norm_name(raw)
NormOnce ==
    /\ pc = "norm"
    /\ normed' = <<_norm_name(raw)>>
    /\ pc' = "norm_again"
    /\ UNCHANGED <<raw, notNameVars>>

\* _norm_name(n)
NormAgain ==
    /\ pc = "norm_again"
    /\ normed' = Append(normed, _norm_name(normed[1]))
    /\ pc' = "norm_done"
    /\ UNCHANGED <<raw, notNameVars>>

NormNext == NormOnce \/ NormAgain

SpecNorm == NormInit /\ [][NormNext]_vars

\* s has no blank at either end
Trimmed(s) == s = <<>> \/ (s[1] # " " /\ s[Len(s)] # " ")

HasSeparator(s) == \E i \in DOMAIN s : s[i] \in {"/", "\\"}

\* C14: _norm_name returns the name with its path prefix up to the last "/" or
\* "\" removed, a trailing .png of any letter case removed and the surrounding
\* whitespace trimmed: the result holds no "/" or "\", has no blank at either
\* end, and normalizing it again returns it unchanged.
C14_NormNameCanonical ==
    pc = "norm_done" =>
        /\ ~HasSeparator(normed[1])
        /\ Trimmed(normed[1])
        /\ normed[2] = normed[1]

\* What does hold: the result never holds a separator, and a result that is
\* trimmed and does not end in .png is a fixed point
NormNameSimple ==
    pc = "norm_done" =>
        /\ ~HasSeparator(normed[1])
        /\ (Trimmed(normed[1]) /\ ~EndsWith(StrLower(normed[1]), DotPng)) => normed[2] = normed[1]

(***************************************************************************)
(* compose_instance_matrix as a program: one call on a frame matrix and a  *)
(* plist record, and the same product built with mul                       *)
(***************************************************************************)
AsDict(m) == Matrix(m[1], m[2], m[3], m[4], m[5], m[6])

\* frame matrices: every key present, or some keys missing
FrameMatrices ==
    {AsDict(m) : m \in Mats \cup ChainMats}
        \cup { EmptyDict, [tx |-> 7], [a |-> 2, d |-> 3], [b |-> 1, c |-> -1, ty |-> 4] }

Origins == {0, 2, -3}
ScaleFactors == {1, 2, 3}

\* plist records: every key present, or some keys missing (no catalog entry: {})
PlistRecords ==
    [origin_x : Origins, origin_y : Origins, scale_x : ScaleFactors, scale_y : ScaleFactors]
        \cup { EmptyDict, [origin_x |-> 2], [scale_y |-> 3], [origin_y |-> -3, scale_x |-> 2] }

ComposeInit ==
    /\ pc = "compose_instance"
    /\ mA \in FrameMatrices
    /\ mB \in PlistRecords
    /\ mC = NoMat /\ mOut = NoMat
    /\ NotMatIdle

\* composed = compose_instance_matrix(node.get("matrix", {}), pinfo)
ComposeInstance ==
    /\ pc = "compose_instance"
    /\ mOut' = [composed |-> compose_instance_matrix(mA, mB)]
    /\ pc' = "compose_by_mul"
    /\ UNCHANGED <<mA, mB, mC, notMatVars>>

\* M o Translate(ox, oy) o Scale(sx, sy) with mul and mat
ComposeByMul ==
    /\ pc = "compose_by_mul"
    /\ LET M == mat(Get(mA, "a", 1), Get(mA, "b", 0), Get(mA, "c", 0),
                    Get(mA, "d", 1), Get(mA, "tx", 0), Get(mA, "ty", 0))
           T == mat(1, 0, 0, 1, Get(mB, "origin_x", 0), Get(mB, "origin_y", 0))
           Sc == mat(Get(mB, "scale_x", 1), 0, 0, Get(mB, "scale_y", 1), 0, 0)
       IN  mOut' = [composed |-> mOut.composed, local |-> M, chained |-> mul(mul(M, T), Sc)]
    /\ pc' = "compose_done"
    /\ UNCHANGED <<mA, mB, mC, notMatVars>>

ComposeNext == ComposeInstance \/ ComposeByMul

SpecCompose == ComposeInit /\ [][ComposeNext]_vars

\* A dict's component, the identity's when the dict lacks it
Comp(d, key) ==
    IF key \in DOMAIN d THEN d[key]
    ELSE IF key \in {"a", "d", "scale_x", "scale_y"} THEN 1 ELSE 0

AsTuple(d) == <<d.a, d.b, d.c, d.d, d.tx, d.ty>>

\* C12: compose_instance_matrix(M, rec) returns a' = a*sx, b' = b*sx,
\* c' = c*sy, d' = d*sy, tx' = a*ox + c*oy + tx, ty' = b*ox + d*oy + ty, which
\* is M o Translate(ox, oy) o Scale(sx, sy) under mul; without a catalog entry
\* (origin 0, scale 1) the result is M.
C12_ScaleOriginComposition ==
    pc = "compose_done" =>
        LET r == mOut.composed
            a == Comp(mA, "a")   b == Comp(mA, "b")   c == Comp(mA, "c")
            d == Comp(mA, "d")   tx == Comp(mA, "tx") ty == Comp(mA, "ty")
            ox == Comp(mB, "origin_x") oy == Comp(mB, "origin_y")
            sx == Comp(mB, "scale_x")  sy == Comp(mB, "scale_y")
        IN  /\ r.a = a * sx /\ r.b = b * sx /\ r.c = c * sy /\ r.d = d * sy
            /\ r.tx = a * ox + c * oy + tx
            /\ r.ty = b * ox + d * oy + ty
            /\ AsTuple(r) = mOut.chained
            /\ mB = EmptyDict => AsTuple(r) = mOut.local

\* a dense matrix under a record with an origin and two different scales
C12_Witness ==
    /\ pc = "compose_done"
    /\ mA = Matrix(2, 3, 5, 7, 11, 13)
    /\ mB = [origin_x |-> 2, origin_y |-> -3, scale_x |-> 2, scale_y |-> 3]
    /\ mOut.composed = [a |-> 4, b |-> 6, c |-> 15, d |-> 21, tx |-> 0, ty |-> -2]

\* the same matrix without a catalog entry comes back unchanged
ComposeNoEntryWitness ==
    /\ pc = "compose_done"
    /\ mA = Matrix(2, 3, 5, 7, 11, 13)
    /\ mB = EmptyDict
    /\ mOut.composed = mA

(***************************************************************************)
(* Claims on main() of bbone_to_xfl_symbols.py                             *)
(***************************************************************************)
Count(seq, x) == Cardinality({i \in DOMAIN seq : seq[i] = x})

Front(p) == SubSeq(p, 1, Len(p) - 1)

\* The frames main has flattened so far, 0-based
Processed == 0..(Len(flat) - 1)

\* The visits of frame f (0-based)
VisitsOf(f) == flat[f + 1]

HasVisit(f, p) == \E i \in DOMAIN VisitsOf(f) : VisitsOf(f)[i].path = p

VisitAt(f, p) == VisitsOf(f)[CHOOSE i \in DOMAIN VisitsOf(f) : VisitsOf(f)[i].path = p]

\* The node of the input that the visit at path p of frame f is a visit of: a
\* root of the frame, or a child that its parent's visit went on to
NodeAt(f, p) ==
    IF Len(p) = 1 THEN frames[f + 1].children[p[1]]
    ELSE VisitAt(f, Front(p)).kids[p[Len(p)]]

\* The node's local matrix and alpha multiplier: a component its dict lacks is
\* the identity's
LocalOf(node) ==
    LET M == node.matrix
        At(key, default) == IF key \in DOMAIN M THEN M[key] ELSE default
    IN  <<At("a", 1), At("b", 0), At("c", 0), At("d", 1), At("tx", 0), At("ty", 0)>>

AlphaOf(node) ==
    IF "alphaMultiplier" \in DOMAIN node.color THEN node.color.alphaMultiplier ELSE 1

\* The node references a shared animation that is a non-empty list of the table
Resolves(node) ==
    node.ref # "" /\ node.ref \in DOMAIN shared /\ shared[node.ref] # <<>>

\* The node references a shared animation that is missing or empty
FallsBack(node) ==
    node.ref # "" /\ (node.ref \notin DOMAIN shared \/ shared[node.ref] = <<>>)

\* The entry of the node's shared animation at index k (0-based)
EntryAt(node, k) == shared[node.ref][k + 1]

\* p before q in pre-order: lexicographic, a node before its descendants
RECURSIVE PathLess(_, _)
PathLess(p, q) ==
    IF q = <<>> THEN FALSE
    ELSE IF p = <<>> THEN TRUE
    ELSE IF p[1] # q[1] THEN p[1] < q[1]
    ELSE PathLess(Tail(p), Tail(q))

\* The world matrix and alpha of the section 4.4 rule, by the node's path:
\* root-to-leaf, Parent o Local from identity, alpha product from 1
RECURSIVE PathWorld(_, _)
PathWorld(f, p) ==
    IF p = <<>> THEN <<1, 0, 0, 1, 0, 0>>
    ELSE LET P == PathWorld(f, Front(p))
             L == LocalOf(NodeAt(f, p))
         IN  << CompA(P)*CompA(L)  + CompC(P)*CompB(L),
                CompB(P)*CompA(L)  + CompD(P)*CompB(L),
                CompA(P)*CompC(L)  + CompC(P)*CompD(L),
                CompB(P)*CompC(L)  + CompD(P)*CompD(L),
                CompA(P)*CompTx(L) + CompC(P)*CompTy(L) + CompTx(P),
                CompB(P)*CompTx(L) + CompD(P)*CompTy(L) + CompTy(P) >>

RECURSIVE PathAlpha(_, _)
PathAlpha(f, p) ==
    IF p = <<>> THEN 1 ELSE PathAlpha(f, Front(p)) * AlphaOf(NodeAt(f, p))

\* Every node of the frame's effective tree has one visit, found at its path
TreeVisited(f) ==
    /\ \A r \in DOMAIN frames[f + 1].children : HasVisit(f, <<r>>)
    /\ \A i \in DOMAIN VisitsOf(f) :
          LET v == VisitsOf(f)[i]
          IN  /\ v.name = NodeAt(f, v.path).name
              /\ \A k \in DOMAIN v.kids : HasVisit(f, Append(v.path, k))
              /\ \A j \in DOMAIN VisitsOf(f) : VisitsOf(f)[j].path = v.path => j = i
              /\ \/ Len(v.path) = 1 /\ v.path[1] \in DOMAIN frames[f + 1].children
                 \/ /\ Len(v.path) > 1
                    /\ HasVisit(f, Front(v.path))
                    /\ v.path[Len(v.path)] \in DOMAIN VisitAt(f, Front(v.path)).kids

\* C3: a node that references a shared animation with a non-empty entry of
\* length L visits, at outer frame fi, the children of entry[fi mod L]; its
\* children at frames k and k+L are the same; a length-2 loop [A, B] over 5
\* frames gives A at frames 0, 2, 4 and B at frames 1, 3.
C3_SharedSelectionModulo ==
    /\ \A f \in Processed : \A i \in DOMAIN VisitsOf(f) :
          LET v == VisitsOf(f)[i]
              node == NodeAt(f, v.path)
          IN  Resolves(node) =>
                LET L == Len(shared[node.ref])
                IN  /\ "children" \in DOMAIN EntryAt(node, f % L)
                          => v.kids = EntryAt(node, f % L).children
                    /\ (f + L \in Processed /\ HasVisit(f + L, v.path)
                            /\ NodeAt(f + L, v.path) = node)
                          => VisitAt(f + L, v.path).kids = v.kids
    /\ (Len(flat) = 5 /\ shared = SharedBlink2 /\ \A i \in 1..5 : frames[i] = FrameRefs)
          => /\ \A f \in {0, 2, 4} : VisitAt(f, <<1>>).kids = ChildrenA
             /\ \A f \in {1, 3} : VisitAt(f, <<1>>).kids = ChildrenB

\* The 5-frame timeline over the loop [A, B], fully flattened
C3_Witness ==
    /\ pc = "emit"
    /\ Len(flat) = 5 /\ shared = SharedBlink2 /\ \A i \in 1..5 : frames[i] = FrameRefs
    /\ VisitAt(4, <<1>>).kids = ChildrenA
    /\ VisitAt(3, <<1>>).kids = ChildrenB
    /\ ChildrenA # ChildrenB

\* Pre-order names of a node list using every node's own children
RECURSIVE OwnPreorder(_)
OwnPreorder(children) ==
    IF children = <<>> THEN <<>>
    ELSE LET n == children[1]
             nm == [i \in DOMAIN n.name |-> IF n.name[i] = "." THEN "_" ELSE n.name[i]]
         IN  (IF nm # <<>> THEN <<nm>> ELSE <<>>)
                \o OwnPreorder(n.children) \o OwnPreorder(Tail(children))

\* Some node of the list's own trees references a shared animation, and every
\* such reference is missing or empty
RECURSIVE SomeRef(_)
SomeRef(children) ==
    \E i \in DOMAIN children : children[i].ref # "" \/ SomeRef(children[i].children)

RECURSIVE NoneResolves(_)
NoneResolves(children) ==
    \A i \in DOMAIN children : ~Resolves(children[i]) /\ NoneResolves(children[i].children)

\* The names the flattening of frame 0 visits, as layer names and in visiting
\* order; a node without a name gives none
Frame0Names ==
    LET v0 == VisitsOf(0)
        nm == [i \in DOMAIN v0 |->
                 [j \in DOMAIN v0[i].name |-> IF v0[i].name[j] = "." THEN "_" ELSE v0[i].name[j]]]
        Named(n) == n # <<>>
    IN  SelectSeq(nm, Named)

\* The positions of frame 0's visits below the visit at position i: the visits
\* of the children its call went on to, and of theirs
Below(i) ==
    LET v0 == VisitsOf(0)
        p == v0[i].path
    IN  {k \in DOMAIN v0 : Len(v0[k].path) > Len(p) /\ SubSeq(v0[k].path, 1, Len(p)) = p}

\* The number of names the draw order holds before the name of frame 0's visit
\* at position i would come
DrawnBefore(i) ==
    Cardinality({k \in 1..(i - 1) : VisitsOf(0)[k].name # <<>>})

\* The part of the draw order that the traversal appends from the children of
\* the node visited at position i of frame 0
DrawnBelow(i) ==
    LET own == IF VisitsOf(0)[i].name # <<>> THEN 1 ELSE 0
        from == DrawnBefore(i) + own + 1
        count == Cardinality({k \in Below(i) : VisitsOf(0)[k].name # <<>>})
    IN  SubSeq(dfs_order, from, from + count - 1)

\* Some node that frame 0 visits references an empty entry / a missing entry
Frame0EmptyEntry ==
    \E i \in DOMAIN VisitsOf(0) :
        LET node == NodeAt(0, VisitsOf(0)[i].path)
        IN  node.ref \in DOMAIN shared /\ shared[node.ref] = <<>> /\ node.children # <<>>

Frame0MissingEntry ==
    \E i \in DOMAIN VisitsOf(0) :
        LET node == NodeAt(0, VisitsOf(0)[i].path)
        IN  node.ref # "" /\ node.ref \notin DOMAIN shared

\* C4: a reference to a missing or empty shared animation falls back to the
\* node's own children, in flattening and in the draw-order traversal, and is
\* no error: the only runs that end in an error are that of an empty timeline
\* and that of a timeline holding a value that is not a number.  Of the draw
\* order this is stated node by node and for every table: the traversal visits
\* the nodes the flattening of frame 0 visits, in the same order, and what it
\* appends below a node that falls back is the pre-order of the node's own
\* children whenever none of their references resolves.
C4_SharedFallback ==
    /\ \A f \in Processed : \A i \in DOMAIN VisitsOf(f) :
          LET v == VisitsOf(f)[i]
              node == NodeAt(f, v.path)
          IN  FallsBack(node) => v.kids = node.children
    /\ (pc = "emit" /\ NoneResolves(frames[1].children))
          => dfs_order = OwnPreorder(frames[1].children)
    /\ pc \in {"emit", "done"} =>
          /\ dfs_order = Frame0Names
          /\ \A i \in DOMAIN VisitsOf(0) :
                LET node == NodeAt(0, VisitsOf(0)[i].path)
                IN  (FallsBack(node) /\ NoneResolves(node.children))
                       => DrawnBelow(i) = OwnPreorder(node.children)
    /\ pc = "exit3" => frames = <<>>
    /\ pc = "raised" => frames \in MalformedTimelines
    /\ pc \in {"main", "exit3", "collect", "compose", "raised", "emit", "done"}

\* A finished run in which "blink" is an empty list and "wave" is missing: the
\* head, which references "blink", keeps its own child in the flattening and in
\* the draw order, and so does the lid, which references "wave"
C4_Witness ==
    /\ pc = "emit"
    /\ frames = <<FrameRefs>>
    /\ shared = SharedBlinkOnlyEmpty
    /\ shared["blink"] = <<>> /\ "wave" \notin DOMAIN shared
    /\ Frame0EmptyEntry /\ Frame0MissingEntry
    /\ SomeRef(frames[1].children)
    /\ VisitAt(0, <<1>>).kids = FrameRefs.children[1].children
    /\ HasVisit(0, <<1, 1>>)
    /\ DrawnBelow(1) = <<NmJaw>>
    /\ dfs_order = <<NmHead, NmJaw, NmLid>>

\* A finished run in which the head's "blink" is an empty list while the lid's
\* "wave" resolves: the head keeps its own child, the jaw, in the draw order,
\* next to the children the lid takes from "wave"
EmptyEntryAmongResolved ==
    /\ pc = "emit"
    /\ frames = <<FrameRefs>>
    /\ shared = SharedBlinkEmpty
    /\ FallsBack(NodeAt(0, <<1>>)) /\ Resolves(NodeAt(0, <<2>>))
    /\ VisitAt(0, <<1>>).kids = FrameRefs.children[1].children
    /\ DrawnBelow(1) = <<NmJaw>>
    /\ dfs_order = <<NmHead, NmJaw, NmLid, NmLid, NmEye>>

\* A finished run in which every reference is missing from the table
MissingEntryWitness ==
    /\ pc = "emit"
    /\ frames = <<FrameRefs>>
    /\ shared = SharedNone
    /\ Frame0MissingEntry /\ ~Frame0EmptyEntry
    /\ VisitAt(0, <<1>>).kids = FrameRefs.children[1].children
    /\ dfs_order = <<NmHead, NmJaw, NmLid>>

\* The node's children were replaced by those of a shared entry
Substituted(f, node) ==
    Resolves(node) /\ "children" \in DOMAIN EntryAt(node, f % Len(shared[node.ref]))

ParentWorld(f, p) == IF Len(p) = 1 THEN <<1, 0, 0, 1, 0, 0>> ELSE VisitAt(f, Front(p)).world

ParentAlpha(f, p) == IF Len(p) = 1 THEN 1 ELSE VisitAt(f, Front(p)).alpha

\* World = Parent o Local, written out
Composed(P, L) ==
    << CompA(P)*CompA(L)  + CompC(P)*CompB(L),
       CompB(P)*CompA(L)  + CompD(P)*CompB(L),
       CompA(P)*CompC(L)  + CompC(P)*CompD(L),
       CompB(P)*CompC(L)  + CompD(P)*CompD(L),
       CompA(P)*CompTx(L) + CompC(P)*CompTy(L) + CompTx(P),
       CompB(P)*CompTx(L) + CompD(P)*CompTy(L) + CompTy(P) >>

\* C5: substitution replaces children only: the instance of a node whose
\* children come from a shared animation still has the node's own local matrix
\* and alpha multiplier, and every substituted child is composed with the
\* node's world matrix and world alpha as its parent state.
C5_SubstitutionKeepsOwnTransform ==
    \A f \in Processed : \A i \in DOMAIN VisitsOf(f) :
        LET v == VisitsOf(f)[i]
            node == NodeAt(f, v.path)
        IN  Substituted(f, node) =>
              /\ v.world = Composed(ParentWorld(f, v.path), LocalOf(node))
              /\ v.alpha = ParentAlpha(f, v.path) * AlphaOf(node)
              /\ v.name = node.name
              /\ \A k \in DOMAIN v.kids :
                    /\ HasVisit(f, Append(v.path, k))
                    /\ LET w == VisitAt(f, Append(v.path, k))
                       IN  /\ w.name = v.kids[k].name
                           /\ w.world = Composed(v.world, LocalOf(v.kids[k]))
                           /\ w.alpha = v.alpha * AlphaOf(v.kids[k])

\* head (matrix (1,0,0,2,1,1), alpha 2) takes the two children of entry B of blink
C5_Witness ==
    /\ pc = "emit"
    /\ shared = SharedBlink2
    /\ frames = <<FrameEmpty, FrameRefs>>
    /\ VisitAt(1, <<1>>).world = <<1, 0, 0, 2, 1, 1>>
    /\ VisitAt(1, <<1>>).alpha = 2
    /\ VisitAt(1, <<1>>).kids = ChildrenB
    /\ VisitAt(1, <<1, 1>>).world = <<2, 0, 0, 4, 1, 1>>
    /\ VisitAt(1, <<1, 1>>).alpha = 4
    /\ VisitAt(1, <<1, 2>>).name = NmEye

\* C6: for every frame and node, the emitted world matrix is the root-to-leaf
\* composition Parent o Local from identity of the local matrices on the
\* node's path, and the world alpha the product of the alpha multipliers on it
\* from 1; head (identity) with child eye at {1,0,0,1,5,10} gives eye the world
\* matrix {1,0,0,1,5,10} and alpha 1.
C6_WorldStateAccumulation ==
    \A f \in Processed :
        /\ TreeVisited(f)
        /\ \A i \in DOMAIN VisitsOf(f) :
              LET v == VisitsOf(f)[i]
              IN  /\ v.world = PathWorld(f, v.path)
                  /\ v.alpha = PathAlpha(f, v.path)
        /\ frames[f + 1] = FrameScenario =>
              /\ VisitAt(f, <<1, 1>>).name = NmEye
              /\ VisitAt(f, <<1, 1>>).world = <<1, 0, 0, 1, 5, 10>>
              /\ VisitAt(f, <<1, 1>>).alpha = 1

\* The 3-level chain group -> eye -> lid of FrameDuplicates, and the scenario
C6_Witness ==
    /\ pc = "emit"
    /\ frames = <<FrameDuplicates, FrameScenario>>
    /\ VisitAt(0, <<1, 1, 1>>).name = NmLid
    /\ VisitAt(0, <<1, 1, 1>>).world = <<-2, 2, -2, 0, -7, 0>>
    /\ VisitAt(0, <<1, 1, 1>>).alpha = 6
    /\ VisitAt(1, <<1, 1>>).world = <<1, 0, 0, 1, 5, 10>>

\* The layer key has an entry in some frame
HasOccurrence(k) == DOMAIN layer_frames[k] # {}

\* The layered names the flattening of frame 0 visits, in visiting order; a
\* node without a name gives none
Frame0Layered ==
    LET v0 == VisitsOf(0)
        nm == [i \in DOMAIN v0 |->
                 [j \in DOMAIN v0[i].name |-> IF v0[i].name[j] = "." THEN "_" ELSE v0[i].name[j]]]
        Layered(n) == n # <<>> /\ n \in DOMAIN layer_frames
    IN  SelectSeq(nm, Layered)

\* s without the repetitions of an element after its first occurrence
FirstOccurrences(s) ==
    LET First(i) == \A j \in 1..(i - 1) : s[j] # s[i]
        idx == {i \in DOMAIN s : First(i)}
        Nth(n) == CHOOSE i \in idx : Cardinality({j \in idx : j < i}) = n - 1
    IN  [n \in 1..Cardinality(idx) |-> s[Nth(n)]]

\* C2: the draw order is total and duplicate-free: every piece that has a layer
\* and at least one occurrence in some frame appears exactly once in the
\* bottom-to-top order, and exactly once in the reversed top-first list, also
\* when frame 0 visits the same name more than once.
C2_DrawOrderDuplicateFree ==
    pc = "emit" =>
        \A k \in DOMAIN layer_frames :
            HasOccurrence(k) => Count(bottom_to_top, k) = 1 /\ Count(top_first, k) = 1

\* What does hold of the draw order: no layer is dropped, and a layer that
\* frame 0 visits at most once appears exactly once
DrawOrderTotal ==
    pc = "emit" =>
        /\ Range(bottom_to_top) = DOMAIN layer_frames
        /\ top_first = Reverse(bottom_to_top)
        /\ \A k \in DOMAIN layer_frames :
              Count(Frame0Layered, k) <= 1 => Count(bottom_to_top, k) = 1

\* C10: the bottom-to-top order is the layered names the depth-first traversal
\* of frame 0 visits, in order of first visit, followed by every layered piece
\* frame 0 does not visit, in catalog order (the order of the layers' catalog).
C10_DrawOrderDerivation ==
    pc = "emit" =>
        LET Unvisited(n) == n \notin Range(Frame0Layered)
        IN  bottom_to_top = FirstOccurrences(Frame0Layered) \o SelectSeq(layer_keys, Unvisited)

\* What does hold: the order lists every visit of frame 0, then the rest in
\* catalog order; so it is the claimed order whenever frame 0 repeats no name
DrawOrderEveryVisit ==
    pc = "emit" =>
        LET Unvisited(n) == n \notin Range(Frame0Layered)
        IN  /\ bottom_to_top = Frame0Layered \o SelectSeq(layer_keys, Unvisited)
            /\ (\A k \in DOMAIN layer_frames : Count(Frame0Layered, k) <= 1)
                  => bottom_to_top = FirstOccurrences(Frame0Layered) \o SelectSeq(layer_keys, Unvisited)

(***************************************************************************)
(* Claims on the tracks of both exporters                                  *)
(***************************************************************************)
\* The layer key of a visit's name: its "." replaced by "_"
KeyOf(name) == [j \in DOMAIN name |-> IF name[j] = "." THEN "_" ELSE name[j]]

\* The visits of frame f whose name is the piece k, as positions of the flat list
VisitsOfPiece(f, k) == {i \in DOMAIN VisitsOf(f) : KeyOf(VisitsOf(f)[i].name) = k}

\* The last of them in pre-order: the one no other follows
LastVisit(f, k) ==
    CHOOSE i \in VisitsOfPiece(f, k) :
        \A j \in VisitsOfPiece(f, k) \ {i} : PathLess(VisitsOf(f)[j].path, VisitsOf(f)[i].path)

\* The flat list of a frame is in pre-order: roots and children in given sequence
InPreorder(f) ==
    \A i, j \in DOMAIN VisitsOf(f) : i < j => PathLess(VisitsOf(f)[i].path, VisitsOf(f)[j].path)

\* The piece name a child of the flat exporter resolves to: normalized, then aliased
ResolvedName(ch) ==
    LET n0 == _norm_name(ch.name) IN IF n0 \in DOMAIN aliases THEN aliases[n0] ELSE n0

\* The children of frame f (0-based) that produce the piece n, as positions
ChildrenOfPiece(f, n) ==
    {i \in DOMAIN frames[f + 1].children :
        /\ _norm_name(frames[f + 1].children[i].name) # <<>>
        /\ ResolvedName(frames[f + 1].children[i]) = n}

LastChild(f, n) ==
    LET occ == ChildrenOfPiece(f, n)
    IN  frames[f + 1].children[CHOOSE i \in occ : \A j \in occ : j <= i]

\* The instance the flat exporter draws for a child under the piece name n
InstanceOf(ch, n) ==
    [libraryItemName |-> n,
     matrix |-> apply_global_scale(
                    compose_instance_matrix(ch.matrix, IF n \in DOMAIN pinfos THEN pinfos[n] ELSE <<>>),
                    global_scale),
     color |-> color_element(ch.color)]

\* main(): the slot of piece k at frame f is that of the last visit of k
SymbolsLastWins ==
    \A f \in Processed :
        /\ InPreorder(f)
        /\ \A k \in DOMAIN layer_frames :
              IF VisitsOfPiece(f, k) = {}
              THEN f \notin DOMAIN layer_frames[k]
              ELSE /\ f \in DOMAIN layer_frames[k]
                   /\ layer_frames[k][f].m = VisitsOf(f)[LastVisit(f, k)].world
                   /\ layer_frames[k][f].alpha = VisitsOf(f)[LastVisit(f, k)].alpha

\* _sprite_symbol: fmap holds the last child of each piece, and the layer's
\* frame draws that child or nothing
SpriteLastWins ==
    /\ \A f \in 0..(Len(fmap) - 1) :
          /\ DOMAIN fmap[f + 1] = {n \in {ResolvedName(frames[f + 1].children[i]) :
                                             i \in DOMAIN frames[f + 1].children} :
                                        ChildrenOfPiece(f, n) # {}}
          /\ \A n \in DOMAIN fmap[f + 1] : fmap[f + 1][n] = LastChild(f, n)
    /\ \A l \in DOMAIN layers :
          \A f \in 0..(Len(layers[l].frames) - 1) :
              layers[l].frames[f + 1].elements =
                  IF ChildrenOfPiece(f, layers[l].name) = {} THEN <<>>
                  ELSE << InstanceOf(LastChild(f, layers[l].name), layers[l].name) >>

\* C9: last occurrence wins: when one frame produces the same piece name more
\* than once, the track slot of that piece and frame holds the matrix and alpha
\* of the last instance in traversal order (pre-order depth-first, roots and
\* children in given sequence), never the first and never a merge; a piece the
\* frame does not produce has no slot.
C9_LastOccurrenceWins == SymbolsLastWins /\ SpriteLastWins

\* main() has stored a frame that visits the piece eye twice, with different
\* world matrices and alphas, and the slot is the second visit's
C9_Witness ==
    /\ pc = "emit"
    /\ \E f \in Processed :
          \E k \in DOMAIN layer_frames :
              \E i, j \in VisitsOfPiece(f, k) :
                  /\ i < j
                  /\ j = LastVisit(f, k)
                  /\ VisitsOf(f)[i].world # VisitsOf(f)[j].world
                  /\ VisitsOf(f)[i].alpha # VisitsOf(f)[j].alpha
                  /\ layer_frames[k][f].m = VisitsOf(f)[j].world
                  /\ layer_frames[k][f].alpha = VisitsOf(f)[j].alpha
                  /\ layer_frames[k][f].m = <<1, 0, 0, 1, 5, 10>>

\* _sprite_symbol has built the layer of a piece that a frame holds three
\* times under three spellings, and the frame draws the third
SpriteLastWitness ==
    /\ pc = "sprite_done"
    /\ \E l \in DOMAIN layers :
          \E f \in 0..(Len(frames) - 1) :
              LET occ == ChildrenOfPiece(f, layers[l].name)
              IN  /\ Cardinality(occ) = 3
                  /\ \E i \in occ : frames[f + 1].children[i].matrix # LastChild(f, layers[l].name).matrix
                  /\ layers[l].frames[f + 1].elements[1].matrix
                        = [a |-> 0, b |-> 4, c |-> -6, d |-> 0, tx |-> 0, ty |-> 12]
                  /\ layers[l].frames[f + 1].elements[1].color[1].alphaMultiplier = 3

(***************************************************************************)
(* Claims on the emitted layers                                            *)
(***************************************************************************)
\* The frames of a layer are n slots with indices 0..n-1 and duration 1
SlotsOfLength(frs, n) ==
    /\ Len(frs) = n
    /\ \A i \in DOMAIN frs : frs[i].index = i - 1 /\ frs[i].duration = 1

\* A slot with an instance has exactly one, with a matrix of six components
HasInstance(slot) ==
    /\ Len(slot.elements) = 1
    /\ DOMAIN slot.elements[1].matrix = {"a", "b", "c", "d", "tx", "ty"}

\* main(): every layer key has a layer, and every layer is gap-accurate
SymbolsGapAccurate ==
    pc = "done" =>
        /\ {dom_layers[l].name : l \in DOMAIN dom_layers} = DOMAIN layer_frames
        /\ \A l \in DOMAIN dom_layers :
              /\ SlotsOfLength(dom_layers[l].frames, Len(frames))
              /\ \A f \in 0..(Len(frames) - 1) :
                    IF VisitsOfPiece(f, dom_layers[l].name) # {}
                    THEN HasInstance(dom_layers[l].frames[f + 1])
                    ELSE dom_layers[l].frames[f + 1].elements = <<>>

\* _sprite_symbol: every layer built is gap-accurate
SpriteGapAccurate ==
    \A l \in DOMAIN layers :
        /\ SlotsOfLength(layers[l].frames, Len(frames))
        /\ \A f \in 0..(Len(frames) - 1) :
              IF ChildrenOfPiece(f, layers[l].name) # {}
              THEN HasInstance(layers[l].frames[f + 1])
              ELSE layers[l].frames[f + 1].elements = <<>>

\* C11: keyframe tracks are gap-accurate and of length N: every layered piece
\* gets exactly N frame slots with indices 0..N-1 and duration 1; slot f
\* carries an instance if and only if the piece occurs in frame f, and a slot
\* of a frame without the piece carries no instance, matrix or alpha.
C11_TracksGapAccurate == SymbolsGapAccurate /\ SpriteGapAccurate

\* main() has emitted a layer of three slots: a gap, an instance, a gap
C11_Witness ==
    /\ pc = "done"
    /\ Len(frames) = 3
    /\ \E l \in DOMAIN dom_layers :
          /\ dom_layers[l].frames[1].elements = <<>>
          /\ VisitsOfPiece(0, dom_layers[l].name) = {}
          /\ HasInstance(dom_layers[l].frames[2])
          /\ VisitsOfPiece(1, dom_layers[l].name) # {}
          /\ dom_layers[l].frames[3].elements = <<>>

\* _sprite_symbol has built a layer of two slots: an instance, then a gap
SpriteGapWitness ==
    /\ pc = "sprite_done"
    /\ Len(frames) = 2
    /\ \E l \in DOMAIN layers :
          /\ HasInstance(layers[l].frames[1])
          /\ layers[l].frames[2].elements = <<>>
          /\ ChildrenOfPiece(1, layers[l].name) = {}

\* The matrix of a dict, each component multiplied by g
Times(m, g) ==
    [a |-> m.a * g, b |-> m.b * g, c |-> m.c * g, d |-> m.d * g, tx |-> m.tx * g, ty |-> m.ty * g]

\* _sprite_symbol: every instance's matrix is the origin/scale-composed matrix
\* of the child it draws, each component multiplied by global_scale, once
SpriteScaleUniform ==
    \A l \in DOMAIN layers :
        \A f \in 0..(Len(frames) - 1) :
            ChildrenOfPiece(f, layers[l].name) # {} =>
                layers[l].frames[f + 1].elements[1].matrix =
                    Times(compose_instance_matrix(
                              LastChild(f, layers[l].name).matrix,
                              IF layers[l].name \in DOMAIN pinfos THEN pinfos[layers[l].name] ELSE <<>>),
                          global_scale)

\* main(): one factor g multiplies all six components of every instance's
\* world matrix
SymbolsScaleUniform ==
    pc = "done" =>
        \E g \in {g_sx, g_sy} :
            \A l \in DOMAIN dom_layers :
                \A f \in DOMAIN layer_frames[dom_layers[l].name] :
                    dom_layers[l].frames[f + 1].elements[1].matrix
                        = Times(AsDict(layer_frames[dom_layers[l].name][f].m), g)

\* C13: the global scale is uniform and applied once, last: each of the six
\* components a, b, c, d, tx, ty of every emitted instance matrix is the
\* composed (or world) component multiplied by the same single factor g, in
\* both exporters.
C13_GlobalScaleUniform == SpriteScaleUniform /\ SymbolsScaleUniform

\* What does hold in main(): a, b, tx are multiplied by g_sx and c, d, ty by
\* g_sy, which is one factor only when the target keeps the base aspect
SymbolsScalePerAxis ==
    pc = "done" =>
        /\ \A l \in DOMAIN dom_layers :
              \A f \in DOMAIN layer_frames[dom_layers[l].name] :
                  LET w == AsDict(layer_frames[dom_layers[l].name][f].m)
                      m == dom_layers[l].frames[f + 1].elements[1].matrix
                  IN  /\ m.a = w.a * g_sx /\ m.b = w.b * g_sx /\ m.tx = w.tx * g_sx
                      /\ m.c = w.c * g_sy /\ m.d = w.d * g_sy /\ m.ty = w.ty * g_sy
        /\ g_sx = g_sy => SymbolsScaleUniform

\* _sprite_symbol has drawn the composed matrix {1,0,0,1,5,10} under the
\* global scale 2 as {2,0,0,2,10,20}
SpriteScaleWitness ==
    /\ pc = "sprite_done"
    /\ global_scale = 2
    /\ pinfos = <<>>
    /\ \E l \in DOMAIN layers : \E f \in DOMAIN layers[l].frames :
          /\ layers[l].frames[f].elements # <<>>
          /\ layers[l].frames[f].elements[1].matrix = Matrix(2, 0, 0, 2, 10, 20)

(***************************************************************************)
(* Claims on the catalog: unmatched names and the layers built             *)
(***************************************************************************)
\* The piece names the frames produce: normalized, aliased, not empty
ProducedNames ==
    UNION { {ResolvedName(frames[f].children[i]) :
                i \in {j \in DOMAIN frames[f].children :
                          _norm_name(frames[f].children[j].name) # <<>>}} :
            f \in DOMAIN frames }

\* The number of children of all frames that produce the piece n
RECURSIVE Occurrences(_, _)
Occurrences(n, f) ==
    IF f < 0 THEN 0 ELSE Cardinality(ChildrenOfPiece(f, n)) + Occurrences(n, f - 1)

Unmatched == ProducedNames \ Range(piece_names)

LayerNames == {layers[l].name : l \in DOMAIN layers}

\* an unmatched name has no layer and is counted; no matching name is reported
UnmatchedAbsentAndCounted ==
    pc = "sprite_done" =>
        /\ \A n \in Unmatched :
              /\ n \notin LayerNames /\ n \notin Range(order)
              /\ n \in DOMAIN counts /\ counts[n] = Occurrences(n, Len(frames) - 1)
        /\ Range(reported) \subseteq Unmatched

\* C15: unmatched names are non-fatal: a frame child whose name, normalized
\* and aliased, is not a catalog piece name never gets a layer, is still
\* counted in the usage counts, and is included in the reported list of
\* unmatched names; a name that matches the catalog is never reported.
C15_UnmatchedReported ==
    /\ UnmatchedAbsentAndCounted
    /\ pc = "sprite_done" => Unmatched \subseteq Range(reported)

\* What does hold of the report: it is made on request only, and of the first
\* twenty unmatched names in sorted order
UnmatchedReportedOnRequest ==
    pc = "sprite_done" =>
        /\ ~report_missing => reported = <<>>
        /\ (report_missing /\ Cardinality(Unmatched) <= ReportLimit)
              => Range(reported) = Unmatched
        /\ report_missing => Len(reported) <= ReportLimit

\* a run without --report-missing over a frame with a name outside the atlas
UnmatchedSilentWitness ==
    /\ pc = "sprite_done"
    /\ ~report_missing
    /\ NmToe \in Unmatched
    /\ counts[NmToe] = 1
    /\ reported = <<>>

\* a run with --report-missing over twenty-one names outside the atlas
UnmatchedTruncatedWitness ==
    /\ pc = "sprite_done"
    /\ report_missing
    /\ Cardinality(Unmatched) = ReportLimit + 1
    /\ Len(reported) = ReportLimit
    /\ <<"u", "U">> \in Unmatched \ Range(reported)

\* The names of the layers built, in order
LayerSeq == [l \in DOMAIN layers |-> layers[l].name]

\* s is a subsequence of the catalog: catalog names only, each once, in
\* catalog order
InCatalogOrder(s) ==
    \E pos \in [DOMAIN s -> DOMAIN piece_names] :
        /\ \A i \in DOMAIN s : piece_names[pos[i]] = s[i]
        /\ \A i, j \in DOMAIN s : i < j => pos[i] < pos[j]

\* C16: track scope selection in _sprite_symbol: with a non-empty allow-list
\* the layers are exactly the catalog names in the normalized allow-list;
\* otherwise with include_unused they are all catalog names; otherwise they
\* are the catalog names with at least one occurrence in some frame. Each
\* layer name is a catalog name, appears once, and layers follow catalog order.
C16_TrackScopeSelection ==
    pc = "sprite_done" =>
        /\ Range(LayerSeq) =
              IF only # <<>>
              THEN {n \in Range(piece_names) : \E i \in DOMAIN only : _norm_name(only[i]) = n}
              ELSE IF include_unused THEN Range(piece_names)
              ELSE Range(piece_names) \cap ProducedNames
        /\ InCatalogOrder(LayerSeq)

\* without an allow-list and without include_unused, a catalog of four pieces
\* of which the frames produce three gives three layers in catalog order
C16_Witness ==
    /\ pc = "sprite_done"
    /\ only = <<>> /\ ~include_unused
    /\ piece_names = <<NmEye, NmHead, NmJaw, NmLid>>
    /\ LayerSeq = <<NmEye, NmJaw, NmLid>>

\* an allow-list naming " lid " and a name outside the catalog gives the layer lid
ScopeAllowListWitness ==
    /\ pc = "sprite_done"
    /\ only = <<RawLidPad, NmToe>>
    /\ LayerSeq = <<NmLid>>

\* include_unused gives a layer to a piece no frame produces
ScopeIncludeUnusedWitness ==
    /\ pc = "sprite_done"
    /\ only = <<>> /\ include_unused
    /\ NmHead \in Range(LayerSeq) \ ProducedNames

(***************************************************************************)
(* Claims on the empty timeline                                            *)
(***************************************************************************)
\* main(): without frames the run ends in sys.exit(3) and emits nothing
SymbolsEmptyRejected ==
    (frames = <<>> /\ pc \notin {"main", "convert", "identity_done"}) =>
        /\ pc = "exit3"
        /\ dom_layers = <<>> /\ layer_frames = <<>>

\* the DOMFrames of a list of layers
FramesEmitted(ls) == UNION { Range(ls[l].frames) : l \in DOMAIN ls }

\* C17: an empty timeline is rejected: when the animation data holds zero
\* frames, the conversion ends in an explicit error / no-data result and emits
\* no timeline frame (no frame is fabricated), in both exporters.
C17_EmptyTimelineRejected ==
    (frames = <<>> /\ pc \notin {"main", "convert"}) =>
        /\ pc = "exit3"
        /\ FramesEmitted(dom_layers) = {}
        /\ FramesEmitted(layers) = {}
        /\ FramesEmitted(identity_layers) = {}

\* convert_bbone_to_xfl without frames and without --identity-sprite has built
\* one frame, holding an instance, for each piece of the atlas
EmptyTimelineIdentityWitness ==
    /\ pc = "identity_done"
    /\ frames = <<>> /\ ~identity_sprite
    /\ Len(identity_layers) = Len(piece_names)
    /\ \A l \in DOMAIN identity_layers :
          /\ Len(identity_layers[l].frames) = 1
          /\ identity_layers[l].frames[1].elements # <<>>

(***************************************************************************)
(* Numeric defaults: compose_instance_matrix and compose_list on fields    *)
(* that are missing or not numbers                                         *)
(***************************************************************************)
MalformedMatrices ==
    { [a |-> Malformed], [d |-> Malformed, tx |-> 5], Matrix(2, 3, 5, 7, Malformed, 13),
      [b |-> Malformed, c |-> Malformed, ty |-> Malformed] }

MalformedRecords ==
    { [scale_x |-> Malformed], [origin_x |-> Malformed, origin_y |-> 2, scale_y |-> Malformed] }

DefaultsInit ==
    \/ /\ pc = "compose_instance"
       /\ mA \in FrameMatrices \cup MalformedMatrices
       /\ mB \in PlistRecords \cup MalformedRecords
       /\ mC = NoMat /\ mOut = NoMat
       /\ NotMatIdle
    \/ SymInit

DefaultsNext == ComposeInstance \/ SymNext

SpecDefaults == DefaultsInit /\ [][DefaultsNext]_vars

\* The identity's value of a component
IdentityOf(key) == IF key \in {"a", "d", "scale_x", "scale_y"} THEN 1 ELSE 0

\* A dict's component, the identity's when it is missing or not a number
Clean(d, key) ==
    IF key \notin DOMAIN d THEN IdentityOf(key)
    ELSE IF d[key] = Malformed THEN IdentityOf(key) ELSE d[key]

\* A dict's component, the identity's when it is missing, 0 when not a number
ZeroClean(d, key) ==
    IF key \notin DOMAIN d THEN IdentityOf(key)
    ELSE IF d[key] = Malformed THEN 0 ELSE d[key]

\* The composition of section 4.6 on components read through At
ComposedWith(At(_, _)) ==
    [a  |-> At(mA, "a") * At(mB, "scale_x"),
     b  |-> At(mA, "b") * At(mB, "scale_x"),
     c  |-> At(mA, "c") * At(mB, "scale_y"),
     d  |-> At(mA, "d") * At(mB, "scale_y"),
     tx |-> At(mA, "a") * At(mB, "origin_x") + At(mA, "c") * At(mB, "origin_y") + At(mA, "tx"),
     ty |-> At(mA, "b") * At(mB, "origin_x") + At(mA, "d") * At(mB, "origin_y") + At(mA, "ty")]

\* C18: numeric defaults: for each matrix component and the alpha multiplier
\* independently, a missing or malformed value is replaced by the identity
\* value of that component (a = 1, b = 0, c = 0, d = 1, tx = 0, ty = 0,
\* alpha = 1) and no exception is raised, in compose_instance_matrix and in
\* compose_list.
C18_NumericDefaults ==
    /\ pc = "compose_by_mul" => mOut.composed = ComposedWith(Clean)
    /\ pc # "raised"

\* What does hold in compose_instance_matrix: a missing component is the
\* identity's, one that is not a number is 0.0 whatever the component
ComposeMalformedIsZero ==
    pc = "compose_by_mul" => mOut.composed = ComposedWith(ZeroClean)

\* What does hold in compose_list: missing fields never raise, and the run
\* raises exactly when the frame being composed holds a value that is not a number
ComposeListRaisesOnMalformed ==
    /\ pc = "raised" => frames \in MalformedTimelines
    /\ (pc \in {"emit", "done"}) => frames \notin MalformedTimelines

\* compose_instance_matrix on {"a": not a number} returns a = 0
MalformedScaleWitness ==
    /\ pc = "compose_by_mul"
    /\ mA = [a |-> Malformed]
    /\ mB = EmptyDict
    /\ mOut.composed = [a |-> 0, b |-> 0, c |-> 0, d |-> 1, tx |-> 0, ty |-> 0]

\* main() has left with an exception on the second frame of a timeline
MalformedRaisesWitness ==
    /\ pc = "raised"
    /\ frames = <<FrameScenario, FrameMalformedAlpha>>
    /\ fi = 1

(***************************************************************************)
(* Claims on the order of the frames                                       *)
(***************************************************************************)
\* compose_list raises on a root of frame f
Raises(f) == raising_roots(frames[f + 1].children, f, shared) # {}

\* The roots of frame f that are composed: all of them, or those before the
\* root on which compose_list raises
ComposedRoots(f) ==
    IF Raises(f) THEN roots_before_raise(frames[f + 1].children, f, shared)
    ELSE frames[f + 1].children

\* The flattening of frame f alone: of its own roots, the shared table, and f
AloneVisits(f) == compose_roots(ComposedRoots(f), 1, f, shared)

\* No layer holds a slot of frame f
NoSlots(f) == \A k \in DOMAIN layer_frames : f \notin DOMAIN layer_frames[k]

\* The visits of the piece k among the visits vs, and the last of them
OfPiece(vs, k) == {i \in DOMAIN vs : KeyOf(vs[i].name) = k}

LastOf(vs, k) == vs[CHOOSE i \in OfPiece(vs, k) : \A j \in OfPiece(vs, k) : j <= i]

\* C19: frame-order independence: the content of the track slot (piece, f) is
\* determined by frame f and the shared-animation table only; whatever the
\* order in which the frames are composed, a frame leaves the slots of the
\* other frames alone, so any order gives the tracks of the index order.
\* A frame on which compose_list raises ends the run; its roots before the
\* raising one are stored, and it stays pending.
C19_FrameOrderIndependence ==
    layer_frames # <<>> =>
        /\ \A f \in 0..(Len(frames) - 1) :
              \/ f \in pending /\ NoSlots(f)
              \/ /\ f \in pending => (pc = "raised" /\ Raises(f))
                 /\ LET vs == AloneVisits(f)
                    IN  \A k \in DOMAIN layer_frames :
                            IF OfPiece(vs, k) = {}
                            THEN f \notin DOMAIN layer_frames[k]
                            ELSE /\ f \in DOMAIN layer_frames[k]
                                 /\ layer_frames[k][f].m = LastOf(vs, k).world
                                 /\ layer_frames[k][f].alpha = LastOf(vs, k).alpha
        /\ \A f, g \in pending : (~NoSlots(f) /\ ~NoSlots(g)) => f = g

\* three different frames, the last composed first: frames 0 and 1 are still
\* pending, and a layer holds the slot of frame 2 alone
C19_Witness ==
    /\ pc = "compose"
    /\ Len(frames) = 3
    /\ frames[1] # frames[2] /\ frames[2] # frames[3] /\ frames[1] # frames[3]
    /\ pending = {0, 1}
    /\ \E k \in DOMAIN layer_frames :
          /\ DOMAIN layer_frames[k] = {2}
          /\ OfPiece(AloneVisits(0), k) # {}

\* all frames composed out of index order, the tracks complete
AnyOrderDoneWitness ==
    /\ pc = "done"
    /\ Len(frames) = 3
    /\ \E k \in DOMAIN layer_frames : DOMAIN layer_frames[k] = {0, 1, 2}

(***************************************************************************)
(* Label spans: starts, durations and names                                *)
(***************************************************************************)
\* The 0-based frames the labels map to, and frame 0
SpanStarts == {label_start(labels[k][2]) : k \in DOMAIN labels} \cup {0}

\* The labels that map exactly to the frame s
LabelsAt(s) == {labels[k][1] : k \in {j \in DOMAIN labels : label_start(labels[j][2]) = s}}

\* The end of span i: the start of the next span, N for the last one
SpanEnd(i) == IF i < Len(spans) THEN spans[i + 1].index ELSE total

\* The starts are the label frames and frame 0, each once
StartsAreLabelFrames ==
    /\ {spans[i].index : i \in DOMAIN spans} = SpanStarts
    /\ Len(spans) = Cardinality(SpanStarts)

\* The starts are strictly ascending and N comes after the last of them
StartsAscendToTotal == \A i \in DOMAIN spans : spans[i].index < SpanEnd(i)

\* duration = max(1, nextStart - start)
DurationsClamped ==
    \A i \in DOMAIN spans : spans[i].duration = Max(1, SpanEnd(i) - spans[i].index)

\* A span has a name exactly when a label maps to its start, and the name is
\* one of the labels that do
NamedIffLabelled ==
    \A i \in DOMAIN spans :
        /\ ("name" \in DOMAIN spans[i]) <=> (LabelsAt(spans[i].index) # {})
        /\ ("name" \in DOMAIN spans[i]) => spans[i].name \in LabelsAt(spans[i].index)

\* C20: the span starts are the 0-based label frames plus frame 0, strictly
\* ascending with N as the final end; each duration is max(1, nextStart - start);
\* a span carries a name if and only if some label maps exactly to its start,
\* and the name is one of those labels.
C20_LabelSpansNamed ==
    (pc = "labels_done" /\ labels # <<>>) =>
        /\ StartsAreLabelFrames
        /\ StartsAscendToTotal
        /\ DurationsClamped
        /\ NamedIffLabelled

\* What does hold for every table: the starts are the label frames and frame 0,
\* every duration is max(1, next boundary - start), a span is named only with a
\* label that maps to its start, and a start with a label of non-empty name,
\* first in the table among those mapping there, is named
LabelSpansAsBuilt ==
    (pc = "labels_done" /\ labels # <<>>) =>
        /\ StartsAreLabelFrames
        /\ DurationsClamped
        /\ \A i \in DOMAIN spans :
               /\ ("name" \in DOMAIN spans[i]) => spans[i].name \in LabelsAt(spans[i].index)
               /\ ("name" \in DOMAIN spans[i]) <=>
                      (name_here(labels, spans[i].index) \notin {<<>>, <<"">>})

\* With every label inside the timeline and no empty label name first at its
\* start, the whole statement holds
LabelSpansInRange ==
    (pc = "labels_done" /\ labels # <<>>
        /\ \A k \in DOMAIN labels :
               /\ labels[k][2] <= total
               /\ name_here(labels, label_start(labels[k][2])) # <<"">>)
    => /\ StartsAreLabelFrames
       /\ StartsAscendToTotal
       /\ DurationsClamped
       /\ NamedIffLabelled

\* The scenario: labels {walk: 1, idle: 6} over N = 10 frames
LabelScenario ==
    (pc = "labels_done" /\ labels = << <<"walk", 1>>, <<"idle", 6>> >> /\ total = 10)
    => spans = << [index |-> 0, duration |-> 5, name |-> "walk"],
                  [index |-> 5, duration |-> 5, name |-> "idle"] >>

LabelScenarioWitness ==
    pc = "labels_done" /\ labels = << <<"walk", 1>>, <<"idle", 6>> >> /\ total = 10

\* A label beyond the last frame: the starts descend to N
LabelBeyondEndWitness ==
    /\ pc = "labels_done" /\ labels = << <<"walk", 12>> >> /\ total = 10
    /\ spans = << [index |-> 0, duration |-> 11], [index |-> 11, duration |-> 1, name |-> "walk"] >>

\* A label with the empty name: its span has no name
LabelEmptyNameWitness ==
    /\ pc = "labels_done" /\ labels = << <<"", 3>> >> /\ total = 10
    /\ spans = << [index |-> 0, duration |-> 2], [index |-> 2, duration |-> 8] >>

(***************************************************************************)
(* Nodes with an empty name                                                *)
(***************************************************************************)
\* The visits of frame f whose node has the empty name
EmptyNamed(f) == {i \in DOMAIN VisitsOf(f) : VisitsOf(f)[i].name = <<>>}

\* Some frame flattened so far holds a node with the empty name
SomeEmptyNamed == \E f \in Processed : EmptyNamed(f) # {}

\* The node at path p lies below the node at path q
IsUnder(p, q) == Len(q) < Len(p) /\ SubSeq(p, 1, Len(q)) = q

\* No track holds an entry of a frame for the empty name
EmptyNodeNoTrack ==
    \A f \in Processed :
        EmptyNamed(f) # {} =>
            \A k \in DOMAIN layer_frames : k = <<>> => f \notin DOMAIN layer_frames[k]

\* The empty name is in no draw order
EmptyNodeNotInOrder ==
    (pc \in {"emit", "done"} /\ SomeEmptyNamed) =>
        /\ <<>> \notin Range(dfs_order)
        /\ <<>> \notin Range(bottom_to_top)
        /\ <<>> \notin Range(top_first)

\* Every node below a node with the empty name has the world matrix and alpha
\* of the whole path from the root, the empty-named node's own matrix and
\* alpha included, and so has the track entry of a piece whose last visit it is
EmptyGroupComposed ==
    \A f \in Processed : \A i \in EmptyNamed(f) : \A j \in DOMAIN VisitsOf(f) :
        LET g == VisitsOf(f)[i]
            v == VisitsOf(f)[j]
        IN  /\ g.world = PathWorld(f, g.path)
            /\ g.alpha = PathAlpha(f, g.path)
            /\ IsUnder(v.path, g.path) =>
                  /\ v.world = PathWorld(f, v.path)
                  /\ v.alpha = PathAlpha(f, v.path)
                  /\ (Len(v.path) = Len(g.path) + 1) =>
                        /\ v.world = Composed(g.world, LocalOf(NodeAt(f, v.path)))
                        /\ v.alpha = g.alpha * AlphaOf(NodeAt(f, v.path))
                  /\ \A k \in DOMAIN layer_frames :
                        (VisitsOfPiece(f, k) # {} /\ LastVisit(f, k) = j) =>
                            /\ layer_frames[k][f].m = v.world
                            /\ layer_frames[k][f].alpha = v.alpha

\* C21: a node whose name is empty never produces a track entry and never
\* appears in the draw order, for any catalog, yet its local matrix and alpha
\* are composed into the world state of all its descendants.
C21_EmptyNodesGroupOnly ==
    /\ EmptyNodeNoTrack
    /\ EmptyNodeNotInOrder
    /\ EmptyGroupComposed

\* With no piece of the plist named "" the empty name has no track and is in
\* no draw order; the order dfs_draw_order returns never holds it
EmptyNodeNoTrackUnlessListed ==
    /\ <<>> \notin plist =>
          /\ <<>> \notin DOMAIN layer_frames
          /\ <<>> \notin Range(bottom_to_top) /\ <<>> \notin Range(top_first)
    /\ <<>> \notin Range(dfs_order)

\* A plist item named "": the unnamed group of the frame gets the track ""
\* with its own matrix and alpha, and the track is in the draw order
EmptyNodeTrackWitness ==
    /\ pc = "done"
    /\ frames = <<FrameDuplicates>> /\ plist = {NmNone, NmLid} /\ pngs = {NmHead, NmEye}
    /\ layer_frames[<<>>][0].m = <<2, 0, 0, 2, 1, 0>>
    /\ layer_frames[<<>>][0].alpha = 2
    /\ <<>> \in Range(bottom_to_top)

\* The piece lid below eye below the unnamed group: its track entry carries the
\* group's matrix and alpha
EmptyGroupComposedWitness ==
    /\ pc = "done"
    /\ frames = <<FrameDuplicates>> /\ plist = {} /\ pngs = {NmHead, NmEye, NmLid, NmUnd}
    /\ layer_frames[NmLid][0].m = <<-2, 2, -2, 0, -7, 0>>
    /\ layer_frames[NmLid][0].alpha = 6

(***************************************************************************)
(* compose_list and dfs_draw_order call by call                            *)
(* (bbone_to_xfl_symbols.py, lines 416-433 and 140-155)                    *)
(* Both functions are recursive and keep no record of the shared           *)
(* animations they are inside of.  Here every call is a step: `stack`      *)
(* holds the calls in progress, innermost last, each with the list `kids`  *)
(* it iterates over, the position i of the next child, its world state,    *)
(* the frame index fi it was given and its path.  The first record is the  *)
(* loop over the roots of the frame in main() (or in dfs_draw_order).      *)
(***************************************************************************)
\* The depth at which the interpreter raises RecursionError; it stands for
\* sys.getrecursionlimit(), 1000 by default
RecursionLimit == 6

Call(kids, world, alpha, f, path) ==
    [kids |-> kids, i |-> 1, world |-> world, alpha |-> alpha, fi |-> f, path |-> path]

\* for bone in fr.get("children", []): compose_list(bone, mat(), 1.0, fi)
RootCall(roots, f) == Call(roots, mat_default, 1, f, <<>>)

\* an entry of "blink" whose node references "blink" again
ChildrenSelf == << Bone(NmEye, Matrix(1, 0, 0, 1, 5, 10), Color(1), "blink", <<>>) >>

\* "blink" refers to itself at every frame
SharedSelf == [id \in {"blink"} |-> << Frame(ChildrenSelf) >>]

\* "blink" is the loop [A, itself]: it refers to itself at the odd frames only
SharedSelfOdd == [id \in {"blink"} |-> << Frame(ChildrenA), Frame(ChildrenSelf) >>]

\* "blink" refers to "wave" and "wave" to "blink"
SharedMutual ==
    [id \in {"blink", "wave"} |->
        IF id = "blink"
        THEN << Frame(<< Bone(NmJaw, EmptyDict, EmptyDict, "wave", <<>>) >>) >>
        ELSE << Frame(<< Bone(NmEye, EmptyDict, EmptyDict, "blink", <<>>) >>) >>]

CyclicTables == {SharedSelf, SharedSelfOdd, SharedMutual}

\* timelines of one to MaxFrames frames, every value a number
FlattenTimelines == SeqsUpTo(FramePool, MaxFrames) \ {<<>>}

\* main() composes every frame and then calls dfs_draw_order; dfs_draw_order,
\* a function of the module, is also called on its own
FlattenInit ==
    /\ pc \in {"flatten", "walk"}
    /\ frames \in FlattenTimelines
    /\ shared \in SharedTables \cup CyclicTables
    /\ plist = {} /\ pngs = {}
    /\ name_to_image = <<>> /\ layer_frames = <<>> /\ layer_keys = <<>>
    /\ fi = 0 /\ flat = <<>> /\ dfs_order = <<>> /\ bottom_to_top = <<>> /\ top_first = <<>>
    /\ g_sx = 1 /\ g_sy = 1 /\ dom_layers = <<>>
    /\ pending = {}
    /\ stack = <<RootCall(frames[1].children, 0)>>
    /\ call_out = <<>>
    /\ MatIdle /\ LabIdle /\ SprIdle /\ NameIdle

notCallVars ==
    <<matVars, labVars, sprVars, nameVars, inVars, name_to_image, layer_frames, layer_keys,
      bottom_to_top, top_first, emitVars, pending>>

\* compose_list(ch, world, alpha, fi) is called for the next child: the
\* interpreter raises RecursionError at its depth limit; else the call
\* computes its tuple and its `kids` and goes on to iterate over them
ComposeCall ==
    /\ pc = "flatten"
    /\ LET top == stack[Len(stack)]
       IN  /\ top.i <= Len(top.kids)
           /\ IF Len(stack) > RecursionLimit
              THEN /\ pc' = "recursion_error"
                   /\ UNCHANGED <<stack, call_out>>
              ELSE LET bone == top.kids[top.i]
                       world == mul(top.world, local_matrix(bone))
                       alpha == world_alpha(bone, top.alpha)
                       kids == compose_kids(bone, shared, top.fi)
                       path == Append(top.path, top.i)
                   IN  /\ call_out' = Append(call_out, Visit(bone.name, world, alpha, kids, path))
                       /\ stack' = Append([stack EXCEPT ![Len(stack)].i = @ + 1],
                                          Call(kids, world, alpha, top.fi, path))
                       /\ pc' = pc
    /\ UNCHANGED <<fi, flat, dfs_order, notCallVars>>

\* the loop over kids is over: return out
ComposeReturn ==
    /\ pc = "flatten"
    /\ Len(stack) > 1
    /\ stack[Len(stack)].i > Len(stack[Len(stack)].kids)
    /\ stack' = SubSeq(stack, 1, Len(stack) - 1)
    /\ UNCHANGED <<pc, call_out, fi, flat, dfs_order, notCallVars>>

\* the roots of the frame are done: the next frame, or dfs_draw_order after
\* the last one
ComposeFrameDone ==
    /\ pc = "flatten"
    /\ Len(stack) = 1
    /\ stack[1].i > Len(stack[1].kids)
    /\ flat' = Append(flat, call_out)
    /\ call_out' = <<>>
    /\ fi' = fi + 1
    /\ IF fi + 1 < Len(frames)
       THEN /\ stack' = <<RootCall(frames[fi + 2].children, fi + 1)>>
            /\ pc' = pc
       ELSE /\ stack' = <<RootCall(frames[1].children, 0)>>
            /\ pc' = "walk"
    /\ UNCHANGED <<dfs_order, notCallVars>>

\* walk(ch, fi) is called for the next child
WalkCall ==
    /\ pc = "walk"
    /\ LET top == stack[Len(stack)]
       IN  /\ top.i <= Len(top.kids)
           /\ IF Len(stack) > RecursionLimit
              THEN /\ pc' = "recursion_error"
                   /\ UNCHANGED <<stack, dfs_order>>
              ELSE LET node == top.kids[top.i]
                       n == sanitize(node.name)
                       kids == walk_kids(node, shared, top.fi)
                   IN  /\ dfs_order' = IF n # <<>> THEN Append(dfs_order, n) ELSE dfs_order
                       /\ stack' = Append([stack EXCEPT ![Len(stack)].i = @ + 1],
                                          Call(kids, mat_default, 1, top.fi, Append(top.path, top.i)))
                       /\ pc' = pc
    /\ UNCHANGED <<call_out, fi, flat, notCallVars>>

\* walk returns
WalkReturn ==
    /\ pc = "walk"
    /\ Len(stack) > 1
    /\ stack[Len(stack)].i > Len(stack[Len(stack)].kids)
    /\ stack' = SubSeq(stack, 1, Len(stack) - 1)
    /\ UNCHANGED <<pc, dfs_order, call_out, fi, flat, notCallVars>>

\* return order
WalkDone ==
    /\ pc = "walk"
    /\ Len(stack) = 1
    /\ stack[1].i > Len(stack[1].kids)
    /\ stack' = <<>>
    /\ pc' = "flatten_done"
    /\ UNCHANGED <<dfs_order, call_out, fi, flat, notCallVars>>

FlattenNext ==
    ComposeCall \/ ComposeReturn \/ ComposeFrameDone \/ WalkCall \/ WalkReturn \/ WalkDone

SpecFlatten == FlattenInit /\ [][FlattenNext]_vars

\* a call that can be made is made, a return that can happen happens
SpecFlattenFair == SpecFlatten /\ WF_vars(FlattenNext)

(***************************************************************************)
(* Termination of the flattening                                           *)
(***************************************************************************)
\* The shared animations that the nodes of a list of children, and the nodes
\* below them, reference
RECURSIVE RefsIn(_)
RefsIn(children) ==
    UNION { ({children[i].ref} \ {""}) \cup RefsIn(children[i].children) : i \in DOMAIN children }

\* The shared animations of the table that an entry of `id` references
RefsOf(id) ==
    UNION { IF "children" \in DOMAIN shared[id][k] THEN RefsIn(shared[id][k].children) ELSE {}
                : k \in DOMAIN shared[id] } \cap DOMAIN shared

\* Those reached from `id` in up to n references
RECURSIVE ReachIn(_, _)
ReachIn(id, n) ==
    IF n = 0 THEN {}
    ELSE RefsOf(id) \cup UNION { ReachIn(x, n - 1) : x \in RefsOf(id) }

\* No shared animation reaches itself
AcyclicTable == \A id \in DOMAIN shared : id \notin ReachIn(id, Cardinality(DOMAIN shared))

\* The run is over with both results, or a step can be taken
ReturnsOrGoesOn == pc = "flatten_done" \/ ENABLED FlattenNext

\* Every call in progress was given the frame index of the outer loop: fi in
\* compose_list, 0 in dfs_draw_order
CallsSameFrameIndex ==
    \A d \in DOMAIN stack : stack[d].fi = (IF pc = "walk" THEN 0 ELSE fi)

\* A node reached through a shared animation that references one in turn takes
\* the entry at the outer frame index modulo that animation's length
NestedSameIndex ==
    \A f \in Processed : \A i \in DOMAIN VisitsOf(f) :
        LET v == VisitsOf(f)[i]
            node == NodeAt(f, v.path)
        IN  (Len(v.path) > 1 /\ Resolves(node)) =>
                LET entry == EntryAt(node, f % Len(shared[node.ref]))
                IN  v.kids = IF "children" \in DOMAIN entry THEN entry.children ELSE node.children

\* C22: for every finite timeline and finite shared-animation table, tables
\* whose entries hold nodes that reference shared animations included,
\* compose_list and dfs_draw_order terminate for every frame, and nested
\* references are resolved with the same outer frame index fi.
C22_FlatteningTerminates ==
    /\ ReturnsOrGoesOn
    /\ CallsSameFrameIndex
    /\ NestedSameIndex

\* The frame index part holds for every table
FlattenSameIndex == CallsSameFrameIndex /\ NestedSameIndex

\* With a table in which no shared animation reaches itself every call returns
FlattenAcyclicReturns == AcyclicTable => ReturnsOrGoesOn

\* and the run does end, with what compose_list and dfs_draw_order give as
\* recursive functions
FlattenAcyclicTerminates == AcyclicTable => <>(pc = "flatten_done")

FlattenAgrees ==
    pc = "flatten_done" =>
        /\ \A f \in Processed : flat[f + 1] = compose_roots(frames[f + 1].children, 1, f, shared)
        /\ dfs_order = dfs_draw_order(frames, shared)

\* "blink" is [A, itself]: frame 0 is composed, frame 1 ends in RecursionError
\* inside compose_list
ComposeRecursionWitness ==
    /\ pc = "recursion_error"
    /\ frames = <<FrameRefs, FrameRefs>> /\ shared = SharedSelfOdd
    /\ fi = 1 /\ Len(flat) = 1
    /\ Len(stack) = RecursionLimit + 1

\* "blink" and "wave" reference each other: dfs_draw_order ends in RecursionError
WalkRecursionWitness ==
    /\ pc = "recursion_error"
    /\ shared = SharedMutual /\ flat = <<>> /\ dfs_order # <<>>

\* The nested table, flattened to the end: at frame 2 head takes entry 2 of
\* "blink", whose node jaw takes entry 0 of "wave" (2 mod 2)
NestedDoneWitness ==
    /\ pc = "flatten_done"
    /\ frames = <<FrameRefs, FrameRefs, FrameRefs>> /\ shared = SharedNested
    /\ Len(flat) = 3
    /\ VisitAt(2, <<1, 1>>).name = NmJaw
    /\ VisitAt(2, <<1, 1>>).kids = ChildrenA

(***************************************************************************)
(* What an exception of compose_list leaves behind                         *)
(***************************************************************************)
\* When main() is left by the exception, the slots of the frame being composed
\* are those of its roots before the raising one, and no later frame has a slot
RaiseKeepsEarlierRoots ==
    (pc = "raised" /\ pending = {}) =>
        /\ Raises(fi)
        /\ LET vs == AloneVisits(fi)
           IN  \A k \in DOMAIN layer_frames :
                   IF OfPiece(vs, k) = {}
                   THEN fi \notin DOMAIN layer_frames[k]
                   ELSE /\ layer_frames[k][fi].m = LastOf(vs, k).world
                        /\ layer_frames[k][fi].alpha = LastOf(vs, k).alpha
        /\ \A k \in DOMAIN layer_frames : \A f \in DOMAIN layer_frames[k] : f <= fi

\* head is composed and stored, then eye raises: frame 1 has the slot of head only
RaiseKeepsEarlierRootsWitness ==
    /\ pc = "raised"
    /\ frames = <<FrameScenario, FrameMalformedSecond>>
    /\ pngs = AllPngStems
    /\ fi = 1
    /\ layer_frames[NmHead][1].m = <<2, 0, 0, 2, 3, 4>>
    /\ layer_frames[NmHead][1].alpha = 2
    /\ DOMAIN layer_frames[NmEye] = {0}

\* a value that is not a number under a key compose_list does not read: the
\* node is composed with the defaults of the keys it lacks
UnreadKeyWitness ==
    /\ pc = "done"
    /\ frames = <<FrameUnreadKey>>
    /\ pngs = AllPngStems
    /\ layer_frames[NmEye][0].m = <<1, 0, 0, 1, 0, 0>>
    /\ layer_frames[NmEye][0].alpha = 1

\* the frames taken in any order: the raising frame stays pending with the
\* slot of its first root
AnyOrderRaiseWitness ==
    /\ pc = "raised"
    /\ frames = <<FrameScenario, FrameMalformedSecond>>
    /\ pending = {0, 1}
    /\ layer_frames[NmHead][1].m = <<2, 0, 0, 2, 3, 4>>
    /\ DOMAIN layer_frames[NmEye] = {}

=============================================================================
